---- MODULE Spec2Model ----
(***************************************************************************)
(* Inline dropdown editor (InlineDropdownEditor): the segment model, the   *)
(* text <-> segment codec, the live pattern detector and the key handlers, *)
(* modelled as a state machine.                                            *)
(*                                                                         *)
(* A string is a sequence of one-character strings.  Segment indices and   *)
(* character offsets are 0-based as in the source; Seg(segs, i) reads      *)
(* segs[i] of the source.                                                  *)
(***************************************************************************)
EXTENDS Integers, Sequences, FiniteSets, TLC

VARIABLES
    segments,         \* editorState.segments
    selection,        \* editorState.selection.start (the selection is always collapsed)
    highlightedChip,  \* editorState.highlightedChip: a segment id, or NoChip
    keysTyped,        \* printable keys and Enter keys pressed so far
    lastOp,           \* the handler that ran last ("MoveCaret" for the keys and
                      \* the clicks outside a chip that only move the caret)
    prev,             \* segments and selection as they were when that handler started,
                      \* kept for the handlers that edit (NoPrev after any other handler)
    lastSentValueRef, \* lastSentValueRef.current
    onChangeValue,    \* the value onChange was called with last, or NoValue
    isFocused,        \* isFocused
    scrollTimeout,    \* scrollTimeout of the scroll/resize effect: the pending timer, or NoJob
    cursorUpdateFrameRef, \* cursorUpdateFrameRef.current: the pending frame, or NoJob
    monitorState,     \* monitorState of services/realtimeMonitor.ts
    page,             \* what the real-time monitor has left on the page: the input
                      \* element's text, listeners, timers, promises in flight and
                      \* the events dispatched on window
    storage,          \* chrome.storage.local and the saveContext calls in flight
    manager,          \* the fields of UniversalRefineButtonManager, its pending
                      \* timers, and the input that has the focus
    host,             \* the host of the editor: the value it passes, the value the
                      \* editor's effects ran for, and what followed the last
                      \* push or edit
    bubble            \* the state and the refs of SuggestionBubble, its pending
                      \* timers and the time, in milliseconds

vars == <<segments, selection, highlightedChip, keysTyped, lastOp, prev,
          lastSentValueRef, onChangeValue, isFocused, scrollTimeout,
          cursorUpdateFrameRef, monitorState, page, bubble, storage, manager, host>>

\* ------------------------------------------------------------------------
\* Bounds
\* ------------------------------------------------------------------------
MaxTyped == 1     \* printable keys and Enter keys pressed in one run

MaxIntents == 2   \* intents dispatched in one run of SpecIntents

MaxPieces == 4    \* pieces a flat string of SpecCodec is composed of

MaxScrolls == 3   \* scroll and resize events handled in one run of SpecScroll

\* ------------------------------------------------------------------------
\* Strings
\* ------------------------------------------------------------------------
NoChip == 0       \* highlightedChip: null

NoPrev == [segments |-> <<>>, selection |-> [segmentIndex |-> -1, offsetInSegment |-> -1]]

EditingKeys == {"InsertText", "Backspace", "Delete", "Enter"}

\* the handlers prev is kept for
RecordedOps == EditingKeys \cup {"ExternalValue"}

NoValue == <<"(never)">>   \* onChangeValue: onChange was never called

NoJob == 0        \* scrollTimeout, cursorUpdateFrameRef: null

WhiteSpace == {" ", "\n", "\t"}

\* ------------------------------------------------------------------------
\* The services of the content script before any of them has started
\* ------------------------------------------------------------------------
NoSettings == [frequencyType |-> "null", characterThreshold |-> 0]   \* settings: null

NoCleanup == 0    \* monitorState.cleanup: null

\* the initial monitorState
MonitorStateInit ==
    [isActive |-> FALSE, settings |-> NoSettings, cleanup |-> NoCleanup,
     lastAnalyzedText |-> <<>>, characterCount |-> 0]

\* a page with the text `text' in its input element and the settings
\* `settings' in storage, on which the monitor has done nothing yet
PageInit(text, settings) ==
    [text |-> text, settings |-> settings, listeners |-> {}, timers |-> {},
     inits |-> {}, loops |-> {}, analyses |-> <<>>, events |-> <<>>,
     nextId |-> 1, started |-> 0, added |-> 0, succeeded |-> 0, analysed |-> <<"(none)">>]

NoTimer == -1     \* a timer that is not pending

\* the first render of SuggestionBubble
BubbleStateInit ==
    [suggestion |-> FALSE, isVisible |-> FALSE, isLoading |-> FALSE,
     hideTimeoutRef |-> FALSE, loadingTimeoutRef |-> FALSE,
     hideTimer |-> NoTimer, loadingTimer |-> NoTimer, fadeTimers |-> {},
     sinceShown |-> 0]

\* chrome.storage.local without contexts, and no saveContext call in flight
StorageInit == [contexts |-> <<>>, calls |-> {}, saved |-> <<>>, nextId |-> 1]

NoInput == "(none)"

\* the input elements of the page
Inputs == {"a", "b"}

\* the manager after init(), nothing focused; input a holds text
ManagerInit ==
    [activeInput |-> NoInput, hideTimer |-> NoTimer, typingTimer |-> NoTimer,
     visible |-> FALSE, strayTimers |-> {}, showTimers |-> {},
     focused |-> NoInput, length |-> [e \in Inputs |-> IF e = "a" THEN 4 ELSE 0]]

\* a host that passes a value and does nothing else
HostStateInit ==
    [value |-> <<>>, rendered |-> <<>>, cause |-> "mount", emissions |-> 0,
     parses |-> 0]

\* nothing on the page but the editor
PageIdle ==
    /\ monitorState = MonitorStateInit
    /\ page = PageInit(<<>>, NoSettings)
    /\ bubble = BubbleStateInit
    /\ storage = StorageInit
    /\ manager = ManagerInit

ServicesIdle ==
    /\ PageIdle
    /\ host = HostStateInit

ServicesUnchanged == UNCHANGED <<monitorState, page, bubble, storage, manager, host>>

CUSTOM == <<"c", "u", "s", "t", "o", "m", ".", ".", ".">>

Min(a, b) == IF a < b THEN a ELSE b

Max(a, b) == IF a > b THEN a ELSE b

\* s.substring(from) / s.slice(from), 0-based
substringFrom(s, from) == SubSeq(s, from + 1, Len(s))

\* s.substring(0, to) / s.slice(0, to), 0-based, `to' exclusive
substringTo(s, to) == SubSeq(s, 1, to)

\* s.slice(from, to), 0-based, `to' exclusive
slice(s, from, to) == SubSeq(s, from + 1, to)

RECURSIVE trimStart(_)
trimStart(s) ==
    IF s # <<>> /\ s[1] \in WhiteSpace THEN trimStart(Tail(s)) ELSE s

RECURSIVE trimEnd(_)
trimEnd(s) ==
    IF s # <<>> /\ s[Len(s)] \in WhiteSpace THEN trimEnd(SubSeq(s, 1, Len(s) - 1)) ELSE s

\* String.prototype.trim
trim(s) == trimEnd(trimStart(s))

\* s.split('|'): the pieces between the pipes, empty pieces included
RECURSIVE split(_, _)
split(s, piece) ==
    IF s = <<>> THEN <<piece>>
    ELSE IF s[1] = "|" THEN <<piece>> \o split(Tail(s), <<>>)
    ELSE split(Tail(s), Append(piece, s[1]))

\* option.replace(/^'|'$/g, ''): one leading and one trailing single quote
stripSingleQuotes(s) ==
    LET s1 == IF s # <<>> /\ s[1] = "'" THEN Tail(s) ELSE s
    IN  IF s1 # <<>> /\ s1[Len(s1)] = "'" THEN SubSeq(s1, 1, Len(s1) - 1) ELSE s1

\* option.replace(/[\[\]]/g, '')
RECURSIVE stripBrackets(_)
stripBrackets(s) ==
    IF s = <<>> THEN <<>>
    ELSE IF s[1] \in {"[", "]"} THEN stripBrackets(Tail(s))
    ELSE <<s[1]>> \o stripBrackets(Tail(s))

\* array.filter(opt => keep(opt)) for the two filters the source uses
RECURSIVE filterNonEmpty(_)
filterNonEmpty(opts) ==
    IF opts = <<>> THEN <<>>
    ELSE IF Len(opts[1]) > 0 THEN <<opts[1]>> \o filterNonEmpty(Tail(opts))
    ELSE filterNonEmpty(Tail(opts))

RECURSIVE filterNot(_, _)
filterNot(opts, v) ==
    IF opts = <<>> THEN <<>>
    ELSE IF opts[1] # v THEN <<opts[1]>> \o filterNot(Tail(opts), v)
    ELSE filterNot(Tail(opts), v)

includes(opts, v) == \E i \in 1..Len(opts) : opts[i] = v

\* ------------------------------------------------------------------------
\* Segments
\* ------------------------------------------------------------------------
TextSegment(id, value) ==
    [type |-> "text", id |-> id, value |-> value, options |-> <<>>, selected |-> <<>>]

DropdownSegment(id, options, selected) ==
    [type |-> "dropdown", id |-> id, value |-> <<>>, options |-> options, selected |-> selected]

SegmentPosition(segmentIndex, offsetInSegment) ==
    [segmentIndex |-> segmentIndex, offsetInSegment |-> offsetInSegment]

\* segs[i] of the source (0-based); only read where HasSeg(segs, i)
Seg(segs, i) == segs[i + 1]

\* segs[i] is not undefined
HasSeg(segs, i) == i >= 0 /\ i < Len(segs)

\* newSegments.splice(i, 1)
spliceOut(segs, i) == SubSeq(segs, 1, i) \o SubSeq(segs, i + 2, Len(segs))

\* newSegments.splice(i, 0, seg)
spliceIn(segs, i, seg) == SubSeq(segs, 1, i) \o <<seg>> \o SubSeq(segs, i + 1, Len(segs))

\* newSegments[i] = seg
replaceAt(segs, i, seg) == [segs EXCEPT ![i + 1] = seg]

\* ------------------------------------------------------------------------
\* The token pattern /\[\[([^\]]+)\]\]/g
\* ------------------------------------------------------------------------
\* 0-based index of the first "]" at or after `from', or Len(text) if none
RECURSIVE firstClose(_, _)
firstClose(text, from) ==
    IF from >= Len(text) THEN Len(text)
    ELSE IF text[from + 1] = "]" THEN from
    ELSE firstClose(text, from + 1)

\* the pattern matches with its "[[" at 0-based index i
matchesAt(text, i) ==
    /\ i + 1 < Len(text)
    /\ text[i + 1] = "["
    /\ text[i + 2] = "["
    /\ LET j == firstClose(text, i + 2)
       IN  /\ j >= i + 3
           /\ j + 1 < Len(text)
           /\ text[j + 2] = "]"

\* dropdownRegex.exec(text) with lastIndex = from: the 0-based index of the
\* leftmost match at or after `from', or -1 (null)
RECURSIVE regexExec(_, _)
regexExec(text, from) ==
    IF from >= Len(text) THEN -1
    ELSE IF matchesAt(text, from) THEN from
    ELSE regexExec(text, from + 1)

\* index one past the end of the match that starts at i
matchEnd(text, i) == firstClose(text, i + 2) + 2

\* match[1] of the match that starts at i
matchInner(text, i) == slice(text, i + 2, firstClose(text, i + 2))

\* match[0] of the match that starts at i
matchFull(text, i) == slice(text, i, matchEnd(text, i))

\* ------------------------------------------------------------------------
\* Text <-> segment codec
\* ------------------------------------------------------------------------
\* generateSegmentId: an id no segment of the editor has.  The source draws
\* it at random; ids are only ever compared for equality, so the model takes
\* the least id that is not in `used' (the ids in use or handed out so far).
RECURSIVE leastUnused(_, _)
leastUnused(used, n) == IF n \in used THEN leastUnused(used, n + 1) ELSE n

generateSegmentId(used) == leastUnused(used, 1)

\* unquote that leaves the quotes in place
unquoteNothing(option) == option

\* option.slice(1, -1) when the option is wrapped in double or in single quotes
unquote(option) ==
    IF \/ (option # <<>> /\ option[1] = "\"" /\ option[Len(option)] = "\"")
       \/ (option # <<>> /\ option[1] = "'" /\ option[Len(option)] = "'")
    THEN SubSeq(option, 2, Len(option) - 1)
    ELSE option

\* the rest of one iteration, after the quotes were removed: the cleaned
\* option, or the empty string when the option is skipped
cleanUnquoted(option) ==
    IF option = <<>> THEN <<>> ELSE trim(stripBrackets(option))

\* one iteration of the for-loop of parseDropdownOptionsRobust
cleanOptionRobust(rawOption) == cleanUnquoted(unquote(trim(rawOption)))

\* cleanOptions.push(option) when option.length > 0
pushOption(option, cleanOptions) ==
    IF Len(option) > 0 THEN <<option>> \o cleanOptions ELSE cleanOptions

RECURSIVE cleanOptionsRobust(_)
cleanOptionsRobust(rawOptions) ==
    IF rawOptions = <<>> THEN <<>>
    ELSE pushOption(cleanOptionRobust(rawOptions[1]), cleanOptionsRobust(Tail(rawOptions)))

parseDropdownOptionsRobust(fullMatch, innerContent) ==
    IF innerContent = <<>> \/ trim(innerContent) = <<>> THEN <<>>
    ELSE cleanOptionsRobust(split(innerContent, <<>>))

\* options.map(option => option.trim().replace(/^'|'$/g, ''))
RECURSIVE mapTrimStrip(_)
mapTrimStrip(rawOptions) ==
    IF rawOptions = <<>> THEN <<>>
    ELSE <<stripSingleQuotes(trim(rawOptions[1]))>> \o mapTrimStrip(Tail(rawOptions))

\* the option list the live detector computes from match[1] (empty: keep as text)
detectOptions(inner) ==
    IF trim(inner) = <<>> THEN <<>>
    ELSE filterNonEmpty(mapTrimStrip(split(trim(inner), <<>>)))

\* withCustom that never pushes 'custom...'
withCustomNever(options) == options

\* [...options] with 'custom...' pushed when it is not included
withCustom(options) ==
    IF includes(options, CUSTOM) THEN options ELSE Append(options, CUSTOM)

\* segments.push(seg); acc holds the segments pushed so far and the ids in use
pushSegment(acc, seg) ==
    [acc EXCEPT !.segments = Append(@, seg), !.used = @ \cup {seg.id}]

\* push of a new text segment with a generated id
pushText(acc, value) ==
    pushSegment(acc, TextSegment(generateSegmentId(acc.used), value))

\* push of a new dropdown segment with a generated id; the first option is
\* selected
pushDropdown(acc, options) ==
    pushSegment(acc, DropdownSegment(generateSegmentId(acc.used),
                                     withCustom(options), options[1]))

\* the text before the match at m, if there is any
parseBefore(text, lastIndex, m, acc) ==
    IF m > lastIndex THEN pushText(acc, slice(text, lastIndex, m)) ELSE acc

\* parseMatch that drops the invalid pattern
parseMatchDropInvalid(acc, fullMatch, options) ==
    IF Len(options) > 0 THEN pushDropdown(acc, options) ELSE acc

\* the match itself: a dropdown, or the invalid pattern kept as text
parseMatch(acc, fullMatch, options) ==
    IF Len(options) > 0 THEN pushDropdown(acc, options) ELSE pushText(acc, fullMatch)

\* the while-loop of parseTextToSegments and the code after it; acc is
\* [segments, used], m the result of dropdownRegex.exec
RECURSIVE parseLoop(_, _, _)
parseStep(text, lastIndex, acc, m) ==
    IF m = -1
    THEN IF lastIndex < Len(text)
         THEN pushText(acc, substringFrom(text, lastIndex))
         ELSE acc
    ELSE parseLoop(text, m + Len(matchFull(text, m)),
             parseMatch(parseBefore(text, lastIndex, m, acc),
                        matchFull(text, m),
                        parseDropdownOptionsRobust(matchFull(text, m), matchInner(text, m))))

parseLoop(text, lastIndex, acc) ==
    parseStep(text, lastIndex, acc, regexExec(text, lastIndex))

\* parseTextToSegments(text), with fresh ids outside `used': [segments, used]
parseTextToSegments(text, used) ==
    IF text = <<>> THEN [segments |-> <<>>, used |-> used]
    ELSE parseLoop(text, 0, [segments |-> <<>>, used |-> used])

\* the text before the match at m, if there is any
detectBefore(text, m, acc) ==
    IF m > acc.lastIndex THEN pushText(acc, slice(text, acc.lastIndex, m)) ELSE acc

\* the match itself: a dropdown, or the invalid pattern kept as text
detectMatch(text, m, acc, options) ==
    [(IF Len(options) > 0
      THEN pushDropdown(acc, options)
      ELSE pushText(acc, matchFull(text, m)))
        EXCEPT !.lastIndex = matchEnd(text, m), !.foundPatterns = TRUE]

\* the while-loop of detectAndCreateDropdowns over one text segment; acc is
\* [segments (newSegments), used, lastIndex, foundPatterns], m the result of
\* dropdownRegex.exec
RECURSIVE detectLoop(_, _)
detectStep(text, acc, m) ==
    IF m = -1 THEN acc
    ELSE detectLoop(text,
             detectMatch(text, m, detectBefore(text, m, acc),
                         detectOptions(matchInner(text, m))))

detectLoop(text, acc) == detectStep(text, acc, regexExec(text, acc.lastIndex))

\* the text after the last match, if there is any
detectAfter(text, r) ==
    IF r.lastIndex < Len(text)
    THEN pushText(r, substringFrom(text, r.lastIndex))
    ELSE r

\* detectTrailing that adds no text segment
detectTrailingNothing(r) == r

\* an empty text segment when newSegments now ends in a dropdown
detectTrailing(r) ==
    IF Len(r.segments) > 0 /\ r.segments[Len(r.segments)].type = "dropdown"
    THEN pushText(r, <<>>)
    ELSE r

\* a text segment after its while-loop: r is what the loop left
detectFinish(segment, acc, r) ==
    IF r.foundPatterns
    THEN [acc EXCEPT
            !.segments = detectTrailing(detectAfter(segment.value, r)).segments,
            !.used = detectTrailing(detectAfter(segment.value, r)).used,
            !.hasChanges = TRUE]
    ELSE [acc EXCEPT !.segments = Append(@, segment)]

\* the body of the for-loop of detectAndCreateDropdowns for one segment; acc
\* is [segments (newSegments), used, hasChanges]
detectSegment(segment, acc) ==
    IF segment.type # "text"
    THEN [acc EXCEPT !.segments = Append(@, segment)]
    ELSE detectFinish(segment, acc,
             detectLoop(segment.value,
                        [segments |-> acc.segments, used |-> acc.used,
                         lastIndex |-> 0, foundPatterns |-> FALSE]))

RECURSIVE detectFrom(_, _, _)
detectFrom(segs, i, acc) ==
    IF i > Len(segs) THEN acc ELSE detectFrom(segs, i + 1, detectSegment(segs[i], acc))

\* detectAndCreateDropdowns(segments): [segments, hasChanges, used]
detectAndCreateDropdowns(segs, used) ==
    detectFrom(segs, 1, [segments |-> <<>>, used |-> used, hasChanges |-> FALSE])

\* [selectedOption, ...otherOptions].map(opt => `'${opt}'`).join(' | ')
RECURSIVE joinQuoted(_)
joinQuoted(opts) ==
    IF opts = <<>> THEN <<>>
    ELSE <<"'">> \o opts[1] \o <<"'">> \o
         (IF Len(opts) > 1 THEN <<" ", "|", " ">> \o joinQuoted(Tail(opts)) ELSE <<>>)

RECURSIVE segmentsToText(_)
segmentsToText(segs) ==
    IF segs = <<>> THEN <<>>
    ELSE (IF segs[1].type = "text" THEN segs[1].value
          ELSE <<"[", "[">>
               \o joinQuoted(<<segs[1].selected>> \o filterNot(segs[1].options, segs[1].selected))
               \o <<"]", "]">>)
         \o segmentsToText(Tail(segs))

\* segmentsToFlatText that leaves every dropdown as its token
segmentsToFlatTextKeepTokens(segs) == segmentsToText(segs)

\* segmentsToFlatText: every dropdown resolved to its selected value
RECURSIVE segmentsToFlatText(_)
segmentsToFlatText(segs) ==
    IF segs = <<>> THEN <<>>
    ELSE (IF segs[1].type = "text" THEN segs[1].value ELSE segs[1].selected)
         \o segmentsToFlatText(Tail(segs))

\* ------------------------------------------------------------------------
\* Inputs
\* ------------------------------------------------------------------------
\* flat strings the host passes as the initial value prop
HostValues ==
    { <<>>,
      <<"[", "[", "a", "]", "]", "a">>,
      <<"[", "[", "a", "]", "]", "[", "[", "a", "]", "]">>,
      <<"[", "[", "a", "]", "[", "[", "a", "]", "]">> }

\* flat strings the host passes as a later value prop
ExternalValues ==
    { <<>>,
      <<"[", "[", "a", "]", "]", "a">> }

\* printable keys (event.key of length 1)
TypedKeys == {"]"}

\* values committed in a chip's custom input (trimmed, not empty)
CustomValues == { <<"|">> }

\* ------------------------------------------------------------------------
\* Editor state
\* ------------------------------------------------------------------------
\* the for-loop that looks for the last dropdown: its 0-based index, or -1
RECURSIVE lastDropdownIndex(_)
lastDropdownIndex(segs) ==
    IF segs = <<>> THEN -1
    ELSE IF segs[Len(segs)].type = "dropdown" THEN Len(segs) - 1
    ELSE lastDropdownIndex(SubSeq(segs, 1, Len(segs) - 1))

\* offsetInSegment: seg.type === 'text' ? seg.value.length : 0
endOffset(seg) == IF seg.type = "text" THEN Len(seg.value) ELSE 0

validateCursorPosition(segs, position) ==
    IF Len(segs) = 0 THEN SegmentPosition(0, 0)
    ELSE LET clampedIndex == Max(0, Min(position.segmentIndex, Len(segs) - 1))
             segment == Seg(segs, clampedIndex)
             maxOffset == IF segment.type = "text" THEN Len(segment.value) ELSE 0
             clampedOffset == Max(0, Min(position.offsetInSegment, maxOffset))
         IN  SegmentPosition(clampedIndex, clampedOffset)

\* setCursorPosition(position): the editor state it produces from state st
setCursorPosition(st, position) ==
    LET shouldHighlight == HasSeg(st.segments, position.segmentIndex)
                           /\ Seg(st.segments, position.segmentIndex).type = "dropdown"
    IN  [st EXCEPT !.selection = position,
                   !.highlightedChip =
                       IF shouldHighlight THEN Seg(st.segments, position.segmentIndex).id
                       ELSE NoChip]

\* moveCursor(newPosition): validate, then setCursorPosition
moveCursor(st, newPosition) ==
    setCursorPosition(st, validateCursorPosition(st.segments, newPosition))

\* the editor state the handlers read and replace
editorState ==
    [segments |-> segments, selection |-> selection,
     highlightedChip |-> highlightedChip]

\* the ids the editor state st holds
usedIds(st) ==
    {st.segments[i].id : i \in 1..Len(st.segments)} \cup {st.highlightedChip}

\* the effect that runs when segments changed: onChange(newValue) when the
\* serialised segments differ from the value sent last
\* the effect depends on [segments, onChange]: it runs when segments changed,
\* with newValue the serialisation of the segments the handler left
onChangeEffect ==
    IF segments' = segments
    THEN UNCHANGED <<lastSentValueRef, onChangeValue>>
    ELSE /\ lastSentValueRef' = segmentsToText(segments')
         /\ onChangeValue' = IF lastSentValueRef' # lastSentValueRef
                             THEN lastSentValueRef' ELSE onChangeValue

\* the refs of the first render and the onChange effect of the first render,
\* for the value prop `value' parsed to segs
mountEffects(value, newValue) ==
    /\ lastSentValueRef = newValue
    /\ onChangeValue = IF newValue # value THEN newValue ELSE NoValue
    /\ isFocused = FALSE
    /\ scrollTimeout = NoJob
    /\ cursorUpdateFrameRef = NoJob
    /\ ServicesIdle

\* no focus change, no scroll and no resize, and nothing outside the editor
NoScroll ==
    /\ UNCHANGED <<isFocused, scrollTimeout, cursorUpdateFrameRef>>
    /\ ServicesUnchanged

\* setEditorState of a handler named op: st is the state it leaves
\* the re-render after a handler returned st; before is what prev keeps
CommitWith(op, st, before) ==
    /\ segments' = st.segments
    /\ selection' = st.selection
    /\ highlightedChip' = st.highlightedChip
    /\ lastOp' = op
    /\ prev' = before
    /\ onChangeEffect
    /\ NoScroll

Commit(op, st) ==
    CommitWith(op, st, IF op \in RecordedOps
                       THEN [segments |-> segments, selection |-> selection]
                       ELSE NoPrev)

\* ------------------------------------------------------------------------
\* Text insertion
\* ------------------------------------------------------------------------
\* the position at the end of the content of segs
endOfContent(segs) ==
    SegmentPosition(Max(0, Len(segs) - 1),
        IF segs # <<>> /\ segs[Len(segs)].type = "text"
        THEN Len(segs[Len(segs)].value) ELSE 0)

\* the caret after the live detector ran: after the last dropdown when it
\* reported changes, `otherwise' when it did not; noDropdown is the position
\* used when it reported changes and no dropdown exists
caretAfterDetection(detectionResult, otherwise, noDropdown) ==
    IF detectionResult.hasChanges
    THEN IF lastDropdownIndex(detectionResult.segments) # -1
         THEN SegmentPosition(lastDropdownIndex(detectionResult.segments) + 1, 0)
         ELSE noDropdown
    ELSE otherwise

\* setEditorState with the detector's segments; atEnd tells whether the
\* branch falls back to the end of the content when no dropdown exists
insertDetected(st, detectionResult, otherwise, atEnd) ==
    [st EXCEPT
       !.segments = detectionResult.segments,
       !.selection = caretAfterDetection(detectionResult, otherwise,
                         IF atEnd THEN endOfContent(detectionResult.segments)
                         ELSE otherwise)]

\* empty editor: create the first text segment
insertIntoEmpty(st, text, newSegment) ==
    insertDetected(st,
        detectAndCreateDropdowns(<<newSegment>>, usedIds(st) \cup {newSegment.id}),
        SegmentPosition(0, Len(text)), TRUE)

\* the caret is on a dropdown: new text segment after it
insertAfterDropdown(st, text, validPosition, newSegment) ==
    insertDetected(st,
        detectAndCreateDropdowns(
            spliceIn(st.segments, validPosition.segmentIndex + 1, newSegment),
            usedIds(st) \cup {newSegment.id}),
        SegmentPosition(validPosition.segmentIndex + 1, Len(text)), FALSE)

\* insert into the current text segment
insertIntoText(st, text, validPosition, segment) ==
    insertDetected(st,
        detectAndCreateDropdowns(
            replaceAt(st.segments, validPosition.segmentIndex,
                [segment EXCEPT
                   !.value = substringTo(segment.value, validPosition.offsetInSegment)
                             \o text
                             \o substringFrom(segment.value, validPosition.offsetInSegment)]),
            usedIds(st)),
        SegmentPosition(validPosition.segmentIndex,
                        validPosition.offsetInSegment + Len(text)),
        TRUE)

\* the branches of handleInsertTextSafe for a caret already validated
insertAt(st, text, validPosition) ==
    IF Len(text) = 0 THEN st
    ELSE IF ~HasSeg(st.segments, validPosition.segmentIndex)
    THEN insertIntoEmpty(st, text, TextSegment(generateSegmentId(usedIds(st)), text))
    ELSE IF Seg(st.segments, validPosition.segmentIndex).type # "text"
    THEN insertAfterDropdown(st, text, validPosition,
                             TextSegment(generateSegmentId(usedIds(st)), text))
    ELSE insertIntoText(st, text, validPosition,
                        Seg(st.segments, validPosition.segmentIndex))

handleInsertTextSafe(st, text) ==
    insertAt(st, text, validateCursorPosition(st.segments, st.selection))

\* ------------------------------------------------------------------------
\* Backspace
\* ------------------------------------------------------------------------
\* Case 1, the caret is inside a text segment: delete the character before it
backspaceInText(st, validPosition) ==
    LET segs == st.segments
        idx == validPosition.segmentIndex
        off == validPosition.offsetInSegment
        segment == Seg(segs, idx)
        targetSegment == [segment EXCEPT
            !.value = substringTo(segment.value, off - 1) \o substringFrom(segment.value, off)]
    IN  IF targetSegment.value = <<>>
        THEN LET newSegments == spliceOut(segs, idx)
                 newCursorPosition ==
                     IF idx > 0
                     THEN LET prevSegment == Seg(newSegments, idx - 1)
                          IN  IF prevSegment.type = "text"
                              THEN SegmentPosition(idx - 1, Len(prevSegment.value))
                              ELSE IF idx < Len(newSegments)
                              THEN SegmentPosition(idx, 0)
                              ELSE SegmentPosition(idx - 1, 0)
                     ELSE SegmentPosition(0, 0)
             IN  [st EXCEPT !.segments = newSegments, !.selection = newCursorPosition]
        ELSE [st EXCEPT !.segments = replaceAt(segs, idx, targetSegment),
                        !.selection = SegmentPosition(idx, off - 1)]

\* Case 2, the caret is at the beginning of a dropdown: delete the dropdown itself
\* backspaceOnDropdown leaving the caret behind the segment that followed the
\* deleted dropdown, without counting the removal
backspaceOnDropdownCaretAhead(st, validPosition) ==
    [st EXCEPT !.segments = spliceOut(st.segments, validPosition.segmentIndex),
               !.selection = SegmentPosition(validPosition.segmentIndex + 1, 0)]

backspaceOnDropdown(st, validPosition) ==
    LET idx == validPosition.segmentIndex
        newSegments == spliceOut(st.segments, idx)
        newCursorPosition ==
            IF idx > 0
            THEN SegmentPosition(idx - 1, endOffset(Seg(newSegments, idx - 1)))
            ELSE SegmentPosition(0, 0)
    IN  [st EXCEPT !.segments = newSegments, !.selection = newCursorPosition]

\* backspacePrevDropdown splicing at the caret's index instead of the one before
backspacePrevDropdownOffByOne(st, validPosition) ==
    LET idx == validPosition.segmentIndex
        newSegments == spliceOut(st.segments, idx)
        newCursorPosition ==
            IF idx - 1 > 0
            THEN SegmentPosition(idx - 2, endOffset(Seg(newSegments, idx - 2)))
            ELSE SegmentPosition(0, 0)
    IN  [st EXCEPT !.segments = newSegments, !.selection = newCursorPosition]

\* Case 2, the previous segment is a dropdown: delete that dropdown
backspacePrevDropdown(st, validPosition) ==
    LET idx == validPosition.segmentIndex
        newSegments == spliceOut(st.segments, idx - 1)
        newCursorPosition ==
            IF idx - 1 > 0
            THEN SegmentPosition(idx - 2, endOffset(Seg(newSegments, idx - 2)))
            ELSE SegmentPosition(0, 0)
    IN  [st EXCEPT !.segments = newSegments, !.selection = newCursorPosition]

\* Case 2, the previous segment is a text segment
backspacePrevText(st, validPosition) ==
    LET segs == st.segments
        idx == validPosition.segmentIndex
        prevSegment == Seg(segs, idx - 1)
    IN  IF Len(prevSegment.value) = 0
        THEN \* remove the empty text segment
             [st EXCEPT !.segments = spliceOut(segs, idx - 1),
                        !.selection = SegmentPosition(idx - 1, 0)]
        ELSE \* delete the last character of the previous text segment
             LET targetSegment == [prevSegment EXCEPT
                     !.value = SubSeq(prevSegment.value, 1, Len(prevSegment.value) - 1)]
                 newSegments == replaceAt(segs, idx - 1, targetSegment)
             IN  IF targetSegment.value = <<>>
                 THEN [st EXCEPT !.segments = spliceOut(newSegments, idx - 1),
                                 !.selection = SegmentPosition(idx - 1, 0)]
                 ELSE [st EXCEPT !.segments = newSegments,
                                 !.selection = SegmentPosition(idx - 1, Len(targetSegment.value))]

\* handleBackspaceSafe that steps the offset back without looking at the segments
handleBackspaceUnderflow(st) ==
    [st EXCEPT !.selection =
        SegmentPosition(st.selection.segmentIndex, st.selection.offsetInSegment - 1)]

handleBackspaceSafe(st) ==
    LET segs == st.segments
        validPosition == validateCursorPosition(segs, st.selection)
        idx == validPosition.segmentIndex
        off == validPosition.offsetInSegment
    IN  IF off > 0 /\ HasSeg(segs, idx) /\ Seg(segs, idx).type = "text"
        THEN backspaceInText(st, validPosition)
        ELSE IF off # 0 THEN st
        ELSE IF HasSeg(segs, idx) /\ Seg(segs, idx).type = "dropdown"
        THEN backspaceOnDropdown(st, validPosition)
        ELSE IF idx = 0 THEN st
        ELSE IF ~HasSeg(segs, idx - 1) THEN st
        ELSE IF Seg(segs, idx - 1).type = "dropdown"
        THEN backspacePrevDropdown(st, validPosition)
        ELSE backspacePrevText(st, validPosition)

\* ------------------------------------------------------------------------
\* Enter
\* ------------------------------------------------------------------------
handleEnter(st) ==
    LET segs == st.segments
        currentPosition == st.selection
        idx == currentPosition.segmentIndex
    IN  IF ~HasSeg(segs, idx) THEN st
        ELSE IF Seg(segs, idx).type # "text"
        THEN LET newSegment == TextSegment(generateSegmentId(usedIds(st)), <<"\n">>)
             IN  [st EXCEPT !.segments = spliceIn(segs, idx + 1, newSegment),
                            !.selection = SegmentPosition(idx + 1, 1)]
        ELSE LET segment == Seg(segs, idx)
                 safeOffset == Max(0, Min(currentPosition.offsetInSegment, Len(segment.value)))
                 targetSegment == [segment EXCEPT
                     !.value = substringTo(segment.value, safeOffset) \o <<"\n">>
                               \o substringFrom(segment.value, safeOffset)]
             IN  [st EXCEPT !.segments = replaceAt(segs, idx, targetSegment),
                            !.selection = SegmentPosition(idx, safeOffset + 1)]

\* ------------------------------------------------------------------------
\* Forward delete
\* ------------------------------------------------------------------------
\* deleteAtTextEnd doing nothing, as at the end of the last segment
deleteAtTextEndNoOp(st, validPosition) == st

\* the caret is at the end of a text segment: delete the next segment if it
\* is a dropdown
deleteAtTextEnd(st, validPosition) ==
    LET segs == st.segments
        idx == validPosition.segmentIndex
    IN  IF idx < Len(segs) - 1 /\ Seg(segs, idx + 1).type = "dropdown"
        THEN [st EXCEPT !.segments = spliceOut(segs, idx + 1)]
        ELSE st

\* delete the character after the caret
deleteCharAfter(st, validPosition) ==
    LET idx == validPosition.segmentIndex
        off == validPosition.offsetInSegment
        textSegment == Seg(st.segments, idx)
        targetSegment == [textSegment EXCEPT
            !.value = substringTo(textSegment.value, off)
                      \o substringFrom(textSegment.value, off + 1)]
    IN  [st EXCEPT !.segments = replaceAt(st.segments, idx, targetSegment)]

\* the caret is on a dropdown: delete the dropdown
deleteDropdownAtCaret(st, validPosition) ==
    LET idx == validPosition.segmentIndex
        newSegments == spliceOut(st.segments, idx)
        newIndex == Max(0, idx - 1)
        newOffset == IF HasSeg(newSegments, newIndex)
                     THEN endOffset(Seg(newSegments, newIndex)) ELSE 0
    IN  [st EXCEPT !.segments = newSegments,
                   !.selection = SegmentPosition(newIndex, newOffset)]

handleDelete(st) ==
    LET segs == st.segments
        validPosition == validateCursorPosition(segs, st.selection)
        idx == validPosition.segmentIndex
    IN  IF ~HasSeg(segs, idx) THEN st
        ELSE IF Seg(segs, idx).type = "text"
        THEN IF validPosition.offsetInSegment >= Len(Seg(segs, idx).value)
             THEN deleteAtTextEnd(st, validPosition)
             ELSE deleteCharAfter(st, validPosition)
        ELSE deleteDropdownAtCaret(st, validPosition)

\* ------------------------------------------------------------------------
\* Caret movement
\* ------------------------------------------------------------------------
moveToBeginning(st) ==
    IF Len(st.segments) > 0 THEN moveCursor(st, SegmentPosition(0, 0)) ELSE st

moveToEnd(st) ==
    IF Len(st.segments) > 0
    THEN moveCursor(st, SegmentPosition(Len(st.segments) - 1,
                                        endOffset(st.segments[Len(st.segments)])))
    ELSE st

handleArrowLeft(st) ==
    LET currentPos == st.selection
        idx == currentPos.segmentIndex
    IN  IF currentPos.offsetInSegment = 0
        THEN IF idx > 0 /\ HasSeg(st.segments, idx - 1)
             THEN moveCursor(st, SegmentPosition(idx - 1, endOffset(Seg(st.segments, idx - 1))))
             ELSE st
        ELSE IF HasSeg(st.segments, idx) /\ Seg(st.segments, idx).type = "text"
             THEN moveCursor(st, SegmentPosition(idx, currentPos.offsetInSegment - 1))
             ELSE st

handleArrowRight(st) ==
    LET currentPos == st.selection
        idx == currentPos.segmentIndex
    IN  IF ~HasSeg(st.segments, idx) THEN st
        ELSE LET currentSegment == Seg(st.segments, idx)
                 isAtEndOfSegment ==
                     IF currentSegment.type = "text"
                     THEN currentPos.offsetInSegment >= Len(currentSegment.value)
                     ELSE TRUE
             IN  IF isAtEndOfSegment
                 THEN IF idx < Len(st.segments) - 1
                      THEN moveCursor(st, SegmentPosition(idx + 1, 0))
                      ELSE st
                 ELSE moveCursor(st, SegmentPosition(idx, currentPos.offsetInSegment + 1))

\* a click on the text span of segment segmentIndex resolved to bestOffset
handleTextClick(st, segmentIndex, bestOffset) ==
    moveCursor(st, SegmentPosition(segmentIndex, bestOffset))

\* handleDropdownClick that puts the caret behind the chip
handleDropdownClickBehind(st, segmentIndex) ==
    moveCursor(st, SegmentPosition(segmentIndex + 1, 0))

handleDropdownClick(st, segmentIndex) ==
    moveCursor(st, SegmentPosition(segmentIndex, 0))

handleContainerClick(st) ==
    IF Len(st.segments) = 0
    THEN setCursorPosition(st, SegmentPosition(0, 0))
    ELSE moveToEnd(st)

\* ------------------------------------------------------------------------
\* Dropdown chip intents (dispatchEdit)
\* ------------------------------------------------------------------------
RECURSIVE mapChangeDropdown(_, _, _)
mapChangeDropdown(segs, segmentId, newSelection) ==
    IF segs = <<>> THEN <<>>
    ELSE <<IF segs[1].id = segmentId /\ segs[1].type = "dropdown"
           THEN [segs[1] EXCEPT !.selected = newSelection]
           ELSE segs[1]>>
         \o mapChangeDropdown(Tail(segs), segmentId, newSelection)

\* handleChangeDropdown selecting the sentinel instead of the new selection
handleChangeDropdownToSentinel(st, segmentId, newSelection) ==
    [st EXCEPT !.segments = mapChangeDropdown(st.segments, segmentId, CUSTOM)]

handleChangeDropdown(st, segmentId, newSelection) ==
    [st EXCEPT !.segments = mapChangeDropdown(st.segments, segmentId, newSelection)]

RECURSIVE mapAddCustomOption(_, _, _)
mapAddCustomOption(segs, segmentId, customValue) ==
    IF segs = <<>> THEN <<>>
    ELSE <<IF segs[1].id = segmentId /\ segs[1].type = "dropdown"
           THEN LET existingOptions == filterNot(segs[1].options, CUSTOM)
                    optionsWithCustom ==
                        IF includes(existingOptions, customValue)
                        THEN Append(existingOptions, CUSTOM)
                        ELSE existingOptions \o <<customValue, CUSTOM>>
                IN  [segs[1] EXCEPT !.options = optionsWithCustom, !.selected = customValue]
           ELSE segs[1]>>
         \o mapAddCustomOption(Tail(segs), segmentId, customValue)

\* handleAddCustomOption selecting the value without adding it to the options
handleAddCustomOptionSelectOnly(st, segmentId, customValue) ==
    handleChangeDropdown(st, segmentId, customValue)

handleAddCustomOption(st, segmentId, customValue) ==
    [st EXCEPT !.segments = mapAddCustomOption(st.segments, segmentId, customValue)]

\* newSegments.findIndex(s => s.id === segmentId): 0-based, -1 when absent
RECURSIVE findIndexFrom(_, _, _)
findIndexFrom(segs, segmentId, i) ==
    IF i >= Len(segs) THEN -1
    ELSE IF Seg(segs, i).id = segmentId THEN i
    ELSE findIndexFrom(segs, segmentId, i + 1)

\* handleInsertText once the target segment was found at segmentIndex
insertTextAt(st, segmentIndex, offsetInSegment, text) ==
    IF Seg(st.segments, segmentIndex).type # "text" THEN st
    ELSE [st EXCEPT
            !.segments = replaceAt(st.segments, segmentIndex,
                [Seg(st.segments, segmentIndex) EXCEPT
                   !.value = substringTo(@, Min(offsetInSegment, Len(@)))
                             \o text
                             \o substringFrom(@, Min(offsetInSegment, Len(@)))]),
            !.selection = SegmentPosition(segmentIndex, offsetInSegment + Len(text))]

\* the INSERT_TEXT intent (no live detection)
handleInsertText(st, segmentId, offsetInSegment, text) ==
    IF findIndexFrom(st.segments, segmentId, 0) = -1 THEN st
    ELSE insertTextAt(st, findIndexFrom(st.segments, segmentId, 0), offsetInSegment, text)

\* the DELETE_RANGE intent: not implemented, returns the state
handleDeleteRange(st) == st

\* state.segments.filter(segment => segment.id !== segmentId)
RECURSIVE filterNotId(_, _)
filterNotId(segs, segmentId) ==
    IF segs = <<>> THEN <<>>
    ELSE IF segs[1].id # segmentId THEN <<segs[1]>> \o filterNotId(Tail(segs), segmentId)
    ELSE filterNotId(Tail(segs), segmentId)

handleDeleteDropdown(st, segmentId) ==
    [st EXCEPT !.segments = filterNotId(st.segments, segmentId)]

\* the map of handleConvertDropdownToText; newId is the generated id
RECURSIVE mapConvertDropdownToText(_, _, _, _)
mapConvertDropdownToText(segs, segmentId, textValue, newId) ==
    IF segs = <<>> THEN <<>>
    ELSE <<IF segs[1].id = segmentId /\ segs[1].type = "dropdown"
           THEN TextSegment(newId, textValue)
           ELSE segs[1]>>
         \o mapConvertDropdownToText(Tail(segs), segmentId, textValue, newId)

handleConvertDropdownToText(st, segmentId, textValue) ==
    [st EXCEPT !.segments = mapConvertDropdownToText(st.segments, segmentId, textValue,
                                                     generateSegmentId(usedIds(st)))]

\* an intent; every intent carries all payload fields, the ones its type
\* does not have are empty
EditorAction(type, segmentId, offsetInSegment, value) ==
    [type |-> type, segmentId |-> segmentId,
     offsetInSegment |-> offsetInSegment, value |-> value]

dispatchEdit(currentState, action) ==
    CASE action.type = "INSERT_TEXT" ->
             handleInsertText(currentState, action.segmentId,
                              action.offsetInSegment, action.value)
      [] action.type = "DELETE_RANGE" -> handleDeleteRange(currentState)
      [] action.type = "CHANGE_DROPDOWN" ->
             handleChangeDropdown(currentState, action.segmentId, action.value)
      [] action.type = "DELETE_DROPDOWN" ->
             handleDeleteDropdown(currentState, action.segmentId)
      [] action.type = "CONVERT_DROPDOWN_TO_TEXT" ->
             handleConvertDropdownToText(currentState, action.segmentId, action.value)
      [] action.type = "ADD_CUSTOM_OPTION" ->
             handleAddCustomOption(currentState, action.segmentId, action.value)
      [] OTHER -> currentState

\* ------------------------------------------------------------------------
\* External value
\* ------------------------------------------------------------------------
hasDropdown(segs) == \E i \in 1..Len(segs) : segs[i].type = "dropdown"

\* smartCursorPosition of the external value effect
smartCursorPosition(st, newSegments) ==
    IF hasDropdown(newSegments) /\ ~hasDropdown(st.segments)
    THEN IF lastDropdownIndex(newSegments) # -1
            /\ lastDropdownIndex(newSegments) + 1 < Len(newSegments)
         THEN SegmentPosition(lastDropdownIndex(newSegments) + 1, 0)
         ELSE endOfContent(newSegments)
    ELSE IF Len(newSegments) = 0
    THEN SegmentPosition(0, 0)
    ELSE LET maxSegmentIndex == Max(0, Len(newSegments) - 1)
             targetIndex == Min(st.selection.segmentIndex, maxSegmentIndex)
             maxOffset == endOffset(Seg(newSegments, targetIndex))
         IN  SegmentPosition(targetIndex, Min(st.selection.offsetInSegment, maxOffset))

\* setEditorState of the external value effect
replaceSegments(st, newSegments) ==
    [st EXCEPT !.segments = newSegments,
               !.selection = smartCursorPosition(st, newSegments)]

\* the state update of the effect that runs when the value prop changed
externalValueEffect(st, value) ==
    replaceSegments(st, parseTextToSegments(value, usedIds(st)).segments)

\* ------------------------------------------------------------------------
\* The editor as a state machine
\* ------------------------------------------------------------------------
\* the value effect of the first render: it parses the value again when the
\* serialisation of the first parse differs from it
mountParse(value, first) ==
    IF value # segmentsToText(first.segments)
    THEN parseTextToSegments(value, first.used)
    ELSE first

\* useState initialiser, then the value effect of the first render
Init ==
    \E value \in HostValues :
        /\ segments = mountParse(value, parseTextToSegments(value, {})).segments
        /\ selection = SegmentPosition(0, 0)
        /\ highlightedChip = NoChip
        /\ keysTyped = 0
        /\ lastOp = "init"
        /\ prev = NoPrev
        /\ mountEffects(value, segmentsToText(parseTextToSegments(value, {}).segments))

InsertText ==
    \E key \in TypedKeys :
        /\ keysTyped < MaxTyped
        /\ keysTyped' = keysTyped + 1
        /\ Commit("InsertText", handleInsertTextSafe(editorState, <<key>>))

Backspace ==
    /\ UNCHANGED keysTyped
    /\ Commit("Backspace", handleBackspaceSafe(editorState))

Enter ==
    /\ keysTyped < MaxTyped
    /\ keysTyped' = keysTyped + 1
    /\ Commit("Enter", handleEnter(editorState))

Delete ==
    /\ UNCHANGED keysTyped
    /\ Commit("Delete", handleDelete(editorState))

ArrowLeft ==
    /\ UNCHANGED keysTyped
    /\ Commit("MoveCaret", handleArrowLeft(editorState))

ArrowRight ==
    /\ UNCHANGED keysTyped
    /\ Commit("MoveCaret", handleArrowRight(editorState))

Home ==
    /\ UNCHANGED keysTyped
    /\ Commit("MoveCaret", moveToBeginning(editorState))

End ==
    /\ UNCHANGED keysTyped
    /\ Commit("MoveCaret", moveToEnd(editorState))

TextClick ==
    \E i \in 0..(Len(segments) - 1) :
        /\ Seg(segments, i).type = "text"
        /\ \E bestOffset \in 0..Len(Seg(segments, i).value) :
               /\ UNCHANGED keysTyped
               /\ Commit("MoveCaret", handleTextClick(editorState, i, bestOffset))

DropdownClick ==
    \E i \in 0..(Len(segments) - 1) :
        /\ Seg(segments, i).type = "dropdown"
        /\ UNCHANGED keysTyped
        /\ CommitWith("DropdownClick", handleDropdownClick(editorState, i),
                      [segments |-> <<>>, selection |-> NoPrev.selection,
                       segmentIndex |-> i])

ContainerClick ==
    /\ UNCHANGED keysTyped
    /\ Commit("MoveCaret", handleContainerClick(editorState))

\* DropdownChip.handleOptionSelect on an option other than 'custom...'
ChangeDropdown ==
    \E i \in 1..Len(segments) :
        /\ segments[i].type = "dropdown"
        /\ \E k \in 1..Len(segments[i].options) :
               /\ segments[i].options[k] # CUSTOM
               /\ UNCHANGED keysTyped
               /\ Commit("ChangeDropdown",
                      handleChangeDropdown(editorState, segments[i].id, segments[i].options[k]))

\* DropdownChip custom input committed with Enter or by blur
AddCustomOption ==
    \E i \in 1..Len(segments) :
        /\ segments[i].type = "dropdown"
        /\ \E customValue \in CustomValues :
               /\ UNCHANGED keysTyped
               /\ Commit("AddCustomOption",
                   handleAddCustomOption(editorState, segments[i].id, customValue))

\* the host passes a value that differs from the serialised segments
ExternalValue ==
    \E value \in ExternalValues :
        /\ value # segmentsToText(segments)
        /\ UNCHANGED keysTyped
        /\ Commit("ExternalValue", externalValueEffect(editorState, value))

Next ==
    \/ InsertText
    \/ Backspace
    \/ Enter
    \/ Delete
    \/ ArrowLeft
    \/ ArrowRight
    \/ Home
    \/ End
    \/ TextClick
    \/ DropdownClick
    \/ ContainerClick
    \/ ChangeDropdown
    \/ AddCustomOption
    \/ ExternalValue

Spec == Init /\ [][Next]_vars

\* ------------------------------------------------------------------------
\* The editor mounted with a value that is its own serialisation
\* ------------------------------------------------------------------------
\* "[['a' | 'custom...']]"
SerializedValue ==
    <<"[", "[", "'", "a", "'", " ", "|", " ", "'", "c", "u", "s", "t", "o", "m", ".", ".", ".", "'", "]", "]">>

\* flat strings the host passes later: the same dropdown written otherwise
RewrittenValues ==
    { <<"[", "[", "a", "]", "]">>,
      <<"[", "[", "a", "|", "a", "]", "]">> }

\* useState initialiser; the effects of the first render find nothing to do
SerializedInit ==
    /\ segments = parseTextToSegments(SerializedValue, {}).segments
    /\ selection = SegmentPosition(0, 0)
    /\ highlightedChip = NoChip
    /\ keysTyped = 0
    /\ lastOp = "init"
    /\ prev = NoPrev
    /\ mountEffects(SerializedValue,
                    segmentsToText(parseTextToSegments(SerializedValue, {}).segments))

\* the host passes the dropdown written otherwise
RewrittenValue ==
    \E value \in RewrittenValues :
        /\ value # segmentsToText(segments)
        /\ UNCHANGED keysTyped
        /\ Commit("ExternalValue", externalValueEffect(editorState, value))

SerializedNext ==
    \/ Next
    \/ RewrittenValue

SpecSerialized == SerializedInit /\ [][SerializedNext]_vars

\* ------------------------------------------------------------------------
\* The edit engine alone: dispatchEdit applied to arbitrary intents
\* ------------------------------------------------------------------------
\* flat strings the first state is parsed from
IntentValues ==
    { <<"[", "[", "a", "]", "]", "a">>,
      <<"[", "[", "a", "|", "a", "]", "]">> }

\* segment ids an intent may carry: ids in use and stale ones
SegmentIds == 1..3

\* offsets an INSERT_TEXT intent may carry
IntentOffsets == 0..1

\* strings an intent may carry (text, newSelection, textValue, customValue)
IntentStrings == { <<"a">>, <<"b">>, CUSTOM }

NoAction == EditorAction("init", 0, 0, <<>>)

IntentInit ==
    \E value \in IntentValues :
        /\ segments = parseTextToSegments(value, {}).segments
        /\ selection = SegmentPosition(0, 0)
        /\ highlightedChip = NoChip
        /\ keysTyped = 0
        /\ lastOp = "init"
        /\ prev = [segments |-> <<>>, selection |-> NoPrev.selection, action |-> NoAction]
        /\ mountEffects(value, segmentsToText(parseTextToSegments(value, {}).segments))

\* setEditorState(prevState => dispatchEdit(prevState, action)); st is the
\* state dispatchEdit returned
CommitIntent(action, st) ==
    /\ keysTyped < MaxIntents
    /\ keysTyped' = keysTyped + 1
    /\ segments' = st.segments
    /\ selection' = st.selection
    /\ highlightedChip' = st.highlightedChip
    /\ lastOp' = action.type
    /\ prev' = [segments |-> segments, selection |-> selection, action |-> action]
    /\ onChangeEffect
    /\ NoScroll

dispatch(action) == CommitIntent(action, dispatchEdit(editorState, action))

InsertTextIntent ==
    \E segmentId \in SegmentIds, offsetInSegment \in IntentOffsets, text \in IntentStrings :
        dispatch(EditorAction("INSERT_TEXT", segmentId, offsetInSegment, text))

DeleteRangeIntent == dispatch(EditorAction("DELETE_RANGE", 0, 0, <<>>))

\* the chip never sends the sentinel as a new selection (handleOptionSelect)
ChangeDropdownIntent ==
    \E segmentId \in SegmentIds, newSelection \in IntentStrings \ {CUSTOM} :
        dispatch(EditorAction("CHANGE_DROPDOWN", segmentId, 0, newSelection))

DeleteDropdownIntent ==
    \E segmentId \in SegmentIds :
        dispatch(EditorAction("DELETE_DROPDOWN", segmentId, 0, <<>>))

ConvertDropdownToTextIntent ==
    \E segmentId \in SegmentIds, textValue \in IntentStrings :
        dispatch(EditorAction("CONVERT_DROPDOWN_TO_TEXT", segmentId, 0, textValue))

AddCustomOptionIntent ==
    \E segmentId \in SegmentIds, customValue \in IntentStrings :
        dispatch(EditorAction("ADD_CUSTOM_OPTION", segmentId, 0, customValue))

IntentNext ==
    \/ InsertTextIntent
    \/ DeleteRangeIntent
    \/ ChangeDropdownIntent
    \/ DeleteDropdownIntent
    \/ ConvertDropdownToTextIntent
    \/ AddCustomOptionIntent

SpecIntents == IntentInit /\ [][IntentNext]_vars

\* ------------------------------------------------------------------------
\* The codec alone: flat strings composed piece by piece, then converted
\* ------------------------------------------------------------------------
\* the pieces a flat string is composed of
Pieces ==
    { <<"[", "[">>, <<"]", "]">>, <<"[">>, <<"]">>, <<"a">>, <<"|", "b">>,
      <<"'">>, <<" ">> }

\* "Pick [[a|b]] now"
PickText == <<"P", "i", "c", "k", " ", "[", "[", "a", "|", "b", "]", "]", " ", "n", "o", "w">>

\* flat strings the composition starts from
CodecValues == { <<>>, PickText }

\* the start string, parsed as the value the editor mounts with
CodecInit ==
    \E value \in CodecValues :
        /\ segments = parseTextToSegments(value, {}).segments
        /\ selection = SegmentPosition(0, 0)
        /\ highlightedChip = NoChip
        /\ keysTyped = 0
        /\ lastOp = "parse"
        /\ prev = [segments |-> <<>>, selection |-> NoPrev.selection, text |-> value]
        /\ mountEffects(<<>>, <<>>)

\* the flat string `text' was converted to segs by the converter op
CommitCodec(op, text, segs) ==
    /\ keysTyped < MaxPieces
    /\ keysTyped' = keysTyped + 1
    /\ segments' = segs
    /\ lastOp' = op
    /\ prev' = [prev EXCEPT !.text = text]
    /\ UNCHANGED <<selection, highlightedChip, lastSentValueRef, onChangeValue>>
    /\ NoScroll

\* the host passes the string as value: parseTextToSegments
ParseValue ==
    \E piece \in Pieces :
        CommitCodec("parse", prev.text \o piece,
                    parseTextToSegments(prev.text \o piece, {}).segments)

\* the string is the content of the only text segment: detectAndCreateDropdowns
DetectTyped ==
    \E piece \in Pieces :
        CommitCodec("detect", prev.text \o piece,
                    detectAndCreateDropdowns(<<TextSegment(1, prev.text \o piece)>>,
                                             {1}).segments)

CodecNext ==
    \/ ParseValue
    \/ DetectTyped

SpecCodec == CodecInit /\ [][CodecNext]_vars

\* ------------------------------------------------------------------------
\* Typing alone: a text typed one character at a time into an empty editor
\* ------------------------------------------------------------------------
\* "I want to [[ 'buy' | 'sell' ]] stocks"
WantText ==
    <<"I", " ", "w", "a", "n", "t", " ", "t", "o", " ", "[", "[", " ", "'", "b", "u", "y", "'", " ", "|", " ", "'", "s", "e", "l", "l", "'", " ", "]", "]", " ", "s", "t", "o", "c", "k", "s">>

\* the texts typed
Scripts ==
    { WantText,
      <<"[", "[", "a", "]", "]", "x", "[", "[", " ", "]", "]", "y">>,
      <<"P", "i", "c", "k", " ", "[", "[", "a", "|", "b", "]", "]", " ", "n", "o", "w", " ", "[", "[", "c", "]", "]">>,
      <<"[", "[", "\"", "a", "\"", "|", "[", "b", "]", "]", "]", "!">>,
      <<"[", "[", " ", "]", "]", "[", "[", "a", "]", "]", "b", " ", "[", "[", "c", "]", "]">> }

\* the empty editor; prev.text is the text that is going to be typed
TypingInit ==
    \E script \in Scripts :
        /\ segments = <<>>
        /\ selection = SegmentPosition(0, 0)
        /\ highlightedChip = NoChip
        /\ keysTyped = 0
        /\ lastOp = "init"
        /\ prev = [segments |-> <<>>, selection |-> NoPrev.selection, text |-> script]
        /\ mountEffects(<<>>, <<>>)

\* setEditorState of handleInsertTextSafe: st is the state it leaves
CommitTyped(st) ==
    /\ keysTyped' = keysTyped + 1
    /\ segments' = st.segments
    /\ selection' = st.selection
    /\ highlightedChip' = st.highlightedChip
    /\ lastOp' = "InsertText"
    /\ prev' = [segments |-> segments, selection |-> selection, text |-> prev.text]
    /\ onChangeEffect
    /\ NoScroll

\* keydown of the next character of the text
TypeNext ==
    /\ keysTyped < Len(prev.text)
    /\ CommitTyped(handleInsertTextSafe(editorState, <<prev.text[keysTyped + 1]>>))

TypingNext == TypeNext

SpecTyping == TypingInit /\ [][TypingNext]_vars

\* ------------------------------------------------------------------------
\* Scroll and resize: the throttled recomputation of the caret coordinates
\* ------------------------------------------------------------------------
\* In SpecScroll keysTyped counts the scroll and resize events handled while
\* focused.  The timer an event sets carries the number of the event, and so
\* does the animation frame that timer requests.

\* the part of the state a step of the scroll machinery leaves alone
EditorUnchanged ==
    /\ UNCHANGED <<segments, selection, highlightedChip, lastSentValueRef, onChangeValue>>
    /\ ServicesUnchanged

\* handleFocus
Focus ==
    /\ ~isFocused
    /\ isFocused' = TRUE
    /\ scrollTimeout' = NoJob        \* cleanup of the effect, which depends on isFocused
    /\ lastOp' = "focus"
    /\ prev' = NoPrev
    /\ EditorUnchanged
    /\ UNCHANGED <<keysTyped, cursorUpdateFrameRef>>

\* the callback handleBlur delays by 50 ms, when the focus is still lost
Blur ==
    /\ isFocused
    /\ isFocused' = FALSE
    /\ scrollTimeout' = NoJob        \* cleanup of the effect
    /\ lastOp' = "blur"
    /\ prev' = NoPrev
    /\ EditorUnchanged
    /\ UNCHANGED <<keysTyped, cursorUpdateFrameRef>>

\* handleScrollOrResize: clearTimeout of the pending timer, then setTimeout
ScrollOrResize ==
    /\ isFocused
    /\ keysTyped < MaxScrolls
    /\ keysTyped' = keysTyped + 1
    /\ scrollTimeout' = keysTyped + 1
    /\ lastOp' = "scroll"
    /\ prev' = NoPrev
    /\ EditorUnchanged
    /\ UNCHANGED <<isFocused, cursorUpdateFrameRef>>

\* the timer fires: updateCursorPositionThrottled cancels the pending frame
\* and requests a new one
TimeoutFires ==
    /\ scrollTimeout # NoJob
    /\ cursorUpdateFrameRef' = scrollTimeout
    /\ scrollTimeout' = NoJob
    /\ lastOp' = "timeout"
    /\ prev' = NoPrev
    /\ EditorUnchanged
    /\ UNCHANGED <<keysTyped, isFocused>>

\* the animation frame: updateCursorPosition runs; prev keeps the number of
\* the job that ran and the number of the newest event handled by then
FrameFires ==
    /\ cursorUpdateFrameRef # NoJob
    /\ cursorUpdateFrameRef' = NoJob
    /\ lastOp' = "frame"
    /\ prev' = [segments |-> <<>>, selection |-> NoPrev.selection,
                job |-> cursorUpdateFrameRef, newest |-> keysTyped]
    /\ EditorUnchanged
    /\ UNCHANGED <<keysTyped, isFocused, scrollTimeout>>

\* ArrowRight while focused: the caret changes, updateCursorPositionThrottled
\* is a new callback and the effect is cleaned up and set up again
CaretMoved ==
    /\ isFocused
    /\ segments' = handleArrowRight(editorState).segments
    /\ selection' = handleArrowRight(editorState).selection
    /\ highlightedChip' = handleArrowRight(editorState).highlightedChip
    /\ scrollTimeout' = NoJob
    /\ lastOp' = "MoveCaret"
    /\ prev' = NoPrev
    /\ UNCHANGED <<keysTyped, isFocused, cursorUpdateFrameRef, lastSentValueRef,
                   onChangeValue>>
    /\ ServicesUnchanged

ScrollNext ==
    \/ Focus
    \/ Blur
    \/ ScrollOrResize
    \/ TimeoutFires
    \/ FrameFires
    \/ CaretMoved

SpecScroll == Init /\ [][ScrollNext]_vars

\* ------------------------------------------------------------------------
\* Properties
\* ------------------------------------------------------------------------
textAt(segs, i) == HasSeg(segs, i) /\ Seg(segs, i).type = "text"

dropdownAt(segs, i) == HasSeg(segs, i) /\ Seg(segs, i).type = "dropdown"

\* position is a valid caret of segs
ValidCaret(segs, position) ==
    IF Len(segs) = 0
    THEN position = SegmentPosition(0, 0)
    ELSE /\ HasSeg(segs, position.segmentIndex)
         /\ position.offsetInSegment >= 0
         /\ position.offsetInSegment <= endOffset(Seg(segs, position.segmentIndex))

\* the caret the last editing key started from was valid
PrevValid == ValidCaret(prev.segments, prev.selection)

\* the document as a sequence of units: one per character, one per dropdown
unitsOf(seg) ==
    IF seg.type = "text"
    THEN [i \in 1..Len(seg.value) |-> [kind |-> "char", ch |-> seg.value[i], id |-> 0]]
    ELSE <<[kind |-> "dropdown", ch |-> "", id |-> seg.id]>>

RECURSIVE Units(_)
Units(segs) == IF segs = <<>> THEN <<>> ELSE unitsOf(segs[1]) \o Units(Tail(segs))

\* units that precede the caret in document order
UnitsBefore(segs, position) ==
    Len(Units(SubSeq(segs, 1, position.segmentIndex))) + position.offsetInSegment

\* C1: after any operation no two neighbouring segments are both text segments.
C1_NoAdjacentTextSegments ==
    \A i \in 0..(Len(segments) - 2) : ~(textAt(segments, i) /\ textAt(segments, i + 1))

\* C2: once an editing key has changed the segments, the sequence does not
\* end in a dropdown.
C2_NoTrailingDropdown ==
    (lastOp \in EditingKeys /\ segments # prev.segments)
        => ~dropdownAt(segments, Len(segments) - 1)

\* C3: after every operation the stored caret is a valid position.
C3_CaretValid == ValidCaret(segments, selection)

\* C4: after every operation highlightedChip is non-null exactly when the
\* segment at the caret is a dropdown, and then it is that segment's id.
C4_HighlightedChipDerived ==
    lastOp # "init" =>
        IF dropdownAt(segments, selection.segmentIndex)
        THEN highlightedChip = Seg(segments, selection.segmentIndex).id
        ELSE highlightedChip = NoChip

\* C5: after Backspace or forward Delete no text segment that the edit left
\* empty remains, and a document emptied of all content is the empty list.
C5_EmptiedTextPruned ==
    lastOp \in {"Backspace", "Delete"} =>
        /\ \A i \in 1..Len(segments) :
               (segments[i].type = "text" /\ segments[i].value = <<>>)
                   => \E j \in 1..Len(prev.segments) :
                          /\ prev.segments[j].id = segments[i].id
                          /\ prev.segments[j].value = <<>>
        /\ (Units(prev.segments) # <<>> /\ Units(segments) = <<>>) => segments = <<>>

\* Backspace ran with the caret at offset 0 of a segment that follows a dropdown
C6_AtStartAfterDropdown ==
    /\ lastOp = "Backspace"
    /\ PrevValid
    /\ prev.selection.offsetInSegment = 0
    /\ dropdownAt(prev.segments, prev.selection.segmentIndex - 1)

\* exactly the dropdown before the caret was removed
C6_PrecedingDropdownRemoved ==
    segments = spliceOut(prev.segments, prev.selection.segmentIndex - 1)

\* C6 as stated: Backspace at the start of any segment that follows a dropdown
\* removes exactly that preceding dropdown.
C6_Original == C6_AtStartAfterDropdown => C6_PrecedingDropdownRemoved

\* C6 amended: Backspace at the start of a text segment that follows a dropdown
\* removes exactly that preceding dropdown.
C6_BackspaceAtTextStartRemovesDropdown ==
    (C6_AtStartAfterDropdown /\ textAt(prev.segments, prev.selection.segmentIndex))
        => C6_PrecedingDropdownRemoved

C6_Witness ==
    /\ C6_AtStartAfterDropdown
    /\ textAt(prev.segments, prev.selection.segmentIndex)
    /\ Len(prev.segments) = 3
    /\ C6_PrecedingDropdownRemoved

\* Backspace ran where it deletes the only character of the text segment at
\* index e, whose previous sibling is a dropdown: the caret was behind that
\* character, or at the start of a text segment that follows segment e
C7_DeletesLastCharAfterDropdown(e) ==
    /\ lastOp = "Backspace"
    /\ textAt(prev.segments, e)
    /\ Len(Seg(prev.segments, e).value) = 1
    /\ dropdownAt(prev.segments, e - 1)
    /\ \/ prev.selection = SegmentPosition(e, 1)
       \/ /\ prev.selection = SegmentPosition(e + 1, 0)
          /\ textAt(prev.segments, e + 1)

\* C7 as stated: the emptied segment is removed and the caret lands after the
\* dropdown, never on it.
C7_Original ==
    \A e \in 0..(Len(prev.segments) - 1) :
        C7_DeletesLastCharAfterDropdown(e) =>
            /\ segments = spliceOut(prev.segments, e)
            /\ selection.segmentIndex > e - 1

\* forward Delete ran with the caret at the end of a text segment that is
\* immediately followed by a dropdown
C8_AtTextEndBeforeDropdown ==
    /\ lastOp = "Delete"
    /\ PrevValid
    /\ textAt(prev.segments, prev.selection.segmentIndex)
    /\ prev.selection.offsetInSegment
           = Len(Seg(prev.segments, prev.selection.segmentIndex).value)
    /\ dropdownAt(prev.segments, prev.selection.segmentIndex + 1)

\* C8: forward Delete at the end of a text segment immediately followed by a
\* dropdown removes exactly that dropdown.
C8_DeleteAtTextEndRemovesDropdown ==
    C8_AtTextEndBeforeDropdown
        => segments = spliceOut(prev.segments, prev.selection.segmentIndex + 1)

C8_Witness ==
    /\ C8_AtTextEndBeforeDropdown
    /\ Len(Seg(prev.segments, prev.selection.segmentIndex).value) > 0
    /\ Len(segments) = Len(prev.segments) - 1

\* s without its element at index i (1-based)
withoutUnit(s, i) == SubSeq(s, 1, i - 1) \o SubSeq(s, i + 1, Len(s))

\* C9: wherever a character or a dropdown follows the caret, forward Delete
\* removes exactly that one unit.
C9_DeleteRemovesUnitAfterCaret ==
    (/\ lastOp = "Delete"
     /\ PrevValid
     /\ UnitsBefore(prev.segments, prev.selection) < Len(Units(prev.segments)))
        => Units(segments)
               = withoutUnit(Units(prev.segments),
                             UnitsBefore(prev.segments, prev.selection) + 1)

\* C10: Enter adds exactly one newline to the document, at the caret (directly
\* after the dropdown when the caret is on one).
C10_EnterAddsNewlineAtCaret ==
    (lastOp = "Enter" /\ PrevValid) =>
        LET before == UnitsBefore(prev.segments, prev.selection)
                      + (IF dropdownAt(prev.segments, prev.selection.segmentIndex)
                         THEN 1 ELSE 0)
            old == Units(prev.segments)
        IN  Units(segments)
                = SubSeq(old, 1, before)
                  \o <<[kind |-> "char", ch |-> "\n", id |-> 0]>>
                  \o SubSeq(old, before + 1, Len(old))

\* the intents that address a segment by id
IdIntents ==
    {"INSERT_TEXT", "CHANGE_DROPDOWN", "ADD_CUSTOM_OPTION", "DELETE_DROPDOWN",
     "CONVERT_DROPDOWN_TO_TEXT"}

\* the segment type an id-addressed intent is meant for
targetType(type) == IF type = "INSERT_TEXT" THEN "text" ELSE "dropdown"

\* the last intent addressed no segment of the type it is meant for: its id
\* was absent, or the segment with that id had the other type
IntentMissedTarget ==
    /\ lastOp \in IdIntents
    /\ \A i \in 1..Len(prev.segments) :
           prev.segments[i].id = prev.action.segmentId
               => prev.segments[i].type # targetType(lastOp)

\* C11: an id-addressed intent whose segment id is absent, or whose target has
\* the wrong type for the intent, leaves segments and selection as they were.
C11_MissedIntentIsNoOp ==
    IntentMissedTarget => (segments = prev.segments /\ selection = prev.selection)

\* C12: the chip applies ChangeDropdown only with one of the target's options,
\* so every dropdown's selected value is a member of its options list.
C12_SelectedIsAnOption ==
    \A i \in 1..Len(segments) :
        segments[i].type = "dropdown"
            => includes(segments[i].options, segments[i].selected)

C12_Witness ==
    /\ lastOp = "ChangeDropdown"
    /\ \E i \in 1..Len(segments) :
           /\ segments[i].type = "dropdown"
           /\ segments[i].selected # segments[i].options[1]
           /\ includes(segments[i].options, segments[i].selected)

\* C13: the sentinel "custom..." is never the selected value of a dropdown.
C13_SentinelNeverSelected ==
    \A i \in 1..Len(segments) :
        segments[i].type = "dropdown" => segments[i].selected # CUSTOM

\* C14: the options list of a dropdown never holds the same string twice.
C14_OptionsUnique ==
    \A i \in 1..Len(segments) :
        segments[i].type = "dropdown"
            => \A j, k \in 1..Len(segments[i].options) :
                   j # k => segments[i].options[j] # segments[i].options[k]

\* options with v inserted immediately before a sentinel of old
insertedBeforeSentinel(old, v, options) ==
    \E k \in 1..Len(old) :
        /\ old[k] = CUSTOM
        /\ options = SubSeq(old, 1, k - 1) \o <<v>> \o SubSeq(old, k, Len(old))

\* what AddCustomOption(v) is to make of the dropdown old: new
customOptionAdded(old, v, new) ==
    /\ new.selected = v
    /\ IF includes(old.options, v)
       THEN new.options = old.options
       ELSE insertedBeforeSentinel(old.options, v, new.options)

\* C15: AddCustomOption(segmentId, v) on an existing dropdown leaves the option
\* list unchanged when v is already an option, otherwise inserts v immediately
\* before the sentinel; selected becomes v.
C15_AddCustomOptionEffect ==
    lastOp = "ADD_CUSTOM_OPTION" =>
        \A i \in 1..Len(prev.segments) :
            (prev.segments[i].id = prev.action.segmentId
             /\ prev.segments[i].type = "dropdown")
                => customOptionAdded(prev.segments[i], prev.action.value, segments[i])

\* C16: AddCustomOption(id, v) followed by ChangeDropdown(id, v) yields the
\* state AddCustomOption(id, v) yields alone, for every state, id and v.
C16_AddThenChangeIsAdd ==
    \A segmentId \in SegmentIds, v \in IntentStrings :
        dispatchEdit(dispatchEdit(editorState,
                                  EditorAction("ADD_CUSTOM_OPTION", segmentId, 0, v)),
                     EditorAction("CHANGE_DROPDOWN", segmentId, 0, v))
            = dispatchEdit(editorState, EditorAction("ADD_CUSTOM_OPTION", segmentId, 0, v))

C16_Witness ==
    /\ lastOp = "CHANGE_DROPDOWN"
    /\ segments = prev.segments
    /\ prev.action.value = <<"b">>
    /\ \E i \in 1..Len(segments) :
           /\ segments[i].type = "dropdown"
           /\ segments[i].id = prev.action.segmentId
           /\ segments[i].selected = <<"b">>
           /\ includes(segments[i].options, <<"b">>)

\* the dropdowns of segs, in order
dropdownsOf(segs) == SelectSeq(segs, LAMBDA segment : segment.type = "dropdown")

optionSet(options) == { options[k] : k \in 1..Len(options) }

\* same dropdowns in order, each with the same selected value and the same
\* set of options
selectionEquivalent(a, b) ==
    /\ Len(dropdownsOf(a)) = Len(dropdownsOf(b))
    /\ \A k \in 1..Len(dropdownsOf(a)) :
           /\ dropdownsOf(a)[k].selected = dropdownsOf(b)[k].selected
           /\ optionSet(dropdownsOf(a)[k].options) = optionSet(dropdownsOf(b)[k].options)

\* C17: for every segment sequence the editor holds, parsing its serialization
\* gives a selection-equivalent sequence: the same dropdowns in order, the same
\* selected values, the same sets of options.
C17_ParseSerializeSelectionEquivalent ==
    selectionEquivalent(parseTextToSegments(segmentsToText(segments), {}).segments,
                        segments)

\* serialize(parse(s))
serializeParse(s) == segmentsToText(parseTextToSegments(s, {}).segments)

isFixedPoint(t) == serializeParse(t) = t

\* C18: for every flat string s, serialize(parse(s)) is a fixed point of
\* serialize after parse: serialize(parse(serialize(parse(s)))) = serialize(parse(s)).
C18_SerializeParseIdempotent == isFixedPoint(serializeParse(prev.text))

\* a string with a token of two options was parsed and its serialization is
\* another string
C18_Witness ==
    /\ lastOp = "parse"
    /\ segmentsToText(segments) # prev.text
    /\ \E i \in 1..Len(segments) :
           /\ segments[i].type = "dropdown"
           /\ Len(segments[i].options) > 2

\* the options the converter op ("parse" or "detect") makes of the match at m
optionsOfMatch(op, text, m) ==
    IF op = "parse"
    THEN parseDropdownOptionsRobust(matchFull(text, m), matchInner(text, m))
    ELSE detectOptions(matchInner(text, m))

\* the raw text of the matches of the scan of `text' from the match at m on
\* that yield no option under op, in order
RECURSIVE zeroOptionMatchesFrom(_, _, _)
zeroOptionMatchesFrom(op, text, m) ==
    IF m = -1 THEN <<>>
    ELSE (IF optionsOfMatch(op, text, m) = <<>> THEN <<matchFull(text, m)>> ELSE <<>>)
         \o zeroOptionMatchesFrom(op, text, regexExec(text, matchEnd(text, m)))

zeroOptionMatches(op, text) == zeroOptionMatchesFrom(op, text, regexExec(text, 0))

\* a valid flat string: each of its [[...]] matches yields an option
validFlatText(text) == zeroOptionMatches("parse", text) = <<>>

\* C19: for every valid flat string s, flatten(parse(s)) holds no complete
\* [[...]] token.
C19_FlattenedHasNoToken ==
    (lastOp = "parse" /\ validFlatText(prev.text))
        => regexExec(segmentsToFlatText(segments), 0) = -1

\* a valid string with a token and an opening bracket left in its text was
\* parsed
C19_Witness ==
    /\ lastOp = "parse"
    /\ validFlatText(prev.text)
    /\ \E i \in 1..Len(segments) : segments[i].type = "dropdown"
    /\ \E i \in 1..Len(segments) :
           segments[i].type = "text" /\ includes(segments[i].value, "[")

\* `text' from lastIndex on with the matches that yield options under op cut
\* out; m is the first match from lastIndex on
RECURSIVE literalTextFrom(_, _, _, _)
literalTextFrom(op, text, lastIndex, m) ==
    IF m = -1 THEN substringFrom(text, lastIndex)
    ELSE slice(text, lastIndex, m)
         \o (IF optionsOfMatch(op, text, m) = <<>> THEN matchFull(text, m) ELSE <<>>)
         \o literalTextFrom(op, text, matchEnd(text, m), regexExec(text, matchEnd(text, m)))

literalText(op, text) == literalTextFrom(op, text, 0, regexExec(text, 0))

\* the values of the text segments of segs, concatenated
RECURSIVE textOf(_)
textOf(segs) ==
    IF segs = <<>> THEN <<>>
    ELSE (IF segs[1].type = "text" THEN segs[1].value ELSE <<>>) \o textOf(Tail(segs))

\* the text segments of segs that hold a complete [[...]] match
tokenTexts(segs) ==
    SelectSeq(segs, LAMBDA segment :
        segment.type = "text" /\ regexExec(segment.value, 0) # -1)

\* the values of the segments list, in order
valuesOf(list) == [k \in 1..Len(list) |-> list[k].value]

contentOf(segs) ==
    [k \in 1..Len(segs) |->
        [type |-> segs[k].type, value |-> segs[k].value,
         options |-> segs[k].options, selected |-> segs[k].selected]]

\* C21: parse of "Pick [[a|b]] now" is exactly Text("Pick "), Dropdown with
\* options a, b, custom... and selected a, Text(" now"); flatten of that is
\* "Pick a now" and serialize of that is "Pick [['a' | 'b' | 'custom...']] now".
C21_PickExample ==
    (lastOp = "parse" /\ prev.text = PickText) =>
        /\ contentOf(segments)
               = contentOf(<<TextSegment(0, <<"P", "i", "c", "k", " ">>),
                             DropdownSegment(0, <<<<"a">>, <<"b">>, CUSTOM>>, <<"a">>),
                             TextSegment(0, <<" ", "n", "o", "w">>)>>)
        /\ segmentsToFlatText(segments) = <<"P", "i", "c", "k", " ", "a", " ", "n", "o", "w">>
        /\ segmentsToText(segments)
               = <<"P", "i", "c", "k", " ", "[", "[", "'", "a", "'", " ", "|", " ", "'", "b", "'", " ", "|", " ", "'", "c", "u", "s", "t", "o", "m", ".", ".", ".", "'", "]", "]", " ", "n", "o", "w">>

C21_Witness ==
    /\ lastOp = "parse"
    /\ prev.text = PickText
    /\ Len(segments) = 3
    /\ segments[2].type = "dropdown"

\* C22: typing "I want to [[ 'buy' | 'sell' ]]" one character at a time into
\* an empty editor gives, right after the closing "]]", exactly one dropdown
\* with options buy, sell, custom... and selected buy, followed by an empty
\* text segment; no dropdown exists at any earlier keystroke.
C22_TypedTokenBecomesDropdown ==
    prev.text = WantText =>
        /\ keysTyped < 30 => ~hasDropdown(segments)
        /\ keysTyped = 30 =>
               contentOf(segments)
                   = contentOf(<<TextSegment(0, <<"I", " ", "w", "a", "n", "t", " ", "t", "o", " ">>),
                                 DropdownSegment(0, <<<<"b", "u", "y">>, <<"s", "e", "l", "l">>, CUSTOM>>, <<"b", "u", "y">>),
                                 TextSegment(0, <<>>)>>)

C22_Witness ==
    /\ prev.text = WantText
    /\ keysTyped = 30
    /\ lastOp = "InsertText"
    /\ hasDropdown(segments)

\* the ids of the segments of segs
idsOf(segs) == { segs[k].id : k \in 1..Len(segs) }

\* the 0-based indexes of the dropdowns of `segments' that the last operation
\* created
newDropdownIndexes ==
    { i \in 0..(Len(segments) - 1) :
        /\ Seg(segments, i).type = "dropdown"
        /\ Seg(segments, i).id \notin idsOf(prev.segments) }

\* the greatest element of a non-empty set of integers
greatest(S) == CHOOSE i \in S : \A j \in S : j <= i

\* C23: when a text insertion makes the live detector create new dropdowns,
\* the caret is at offset 0 of the text segment that immediately follows the
\* last newly created dropdown, wherever the insertion happened and whatever
\* other dropdowns exist.
C23_CaretAfterLastNewDropdown ==
    (lastOp = "InsertText" /\ newDropdownIndexes # {}) =>
        /\ selection = SegmentPosition(greatest(newDropdownIndexes) + 1, 0)
        /\ HasSeg(segments, selection.segmentIndex)
        /\ Seg(segments, selection.segmentIndex).type = "text"

\* where the caret at position of segs is after one character was inserted
\* there and nothing else moved it: in the segment the character went into
\* (a new text segment after a dropdown), one further
caretAfterInsert(segs, position) ==
    IF segs = <<>> THEN SegmentPosition(0, 1)
    ELSE IF Seg(segs, position.segmentIndex).type = "dropdown"
    THEN SegmentPosition(position.segmentIndex + 1, 1)
    ELSE SegmentPosition(position.segmentIndex, position.offsetInSegment + 1)

\* C24: when a text insertion creates no new dropdown, the caret keeps its
\* pre-edit, length-adjusted position: it is in the segment the text was
\* inserted into, at the pre-edit offset plus the length of the text.
C24_CaretKeptWithoutNewDropdown ==
    (lastOp = "InsertText" /\ newDropdownIndexes = {}) =>
        selection = caretAfterInsert(prev.segments,
                        validateCursorPosition(prev.segments, prev.selection))

\* segs without the empty text segment at its end, if there is one
withoutTrailingEmptyText(segs) ==
    IF segs # <<>> /\ segs[Len(segs)].type = "text" /\ segs[Len(segs)].value = <<>>
    THEN SubSeq(segs, 1, Len(segs) - 1)
    ELSE segs

\* C25: the live detector applies the token rules of parse: for any text t,
\* detection on a single text segment holding t yields the segment kinds, text
\* values, option lists and selected values of parse(t), apart from the
\* trailing empty text segment the detector synthesizes.
C25_DetectorAgreesWithParse ==
    lastOp = "detect" =>
        contentOf(withoutTrailingEmptyText(segments))
            = contentOf(parseTextToSegments(prev.text, {}).segments)

\* C26: when the host pushes a differing value, the caret is re-anchored:
\* after the last dropdown if the new parse holds dropdowns where the old
\* state had none; at the origin if the new content is empty; otherwise at
\* the previous position clamped into the bounds of the new segments.
C26_ExternalValueReanchorsCaret ==
    lastOp = "ExternalValue" =>
        IF hasDropdown(segments) /\ ~hasDropdown(prev.segments)
        THEN /\ selection = SegmentPosition(lastDropdownIndex(segments) + 1, 0)
             /\ HasSeg(segments, selection.segmentIndex)
        ELSE IF segments = <<>>
        THEN selection = SegmentPosition(0, 0)
        ELSE selection = validateCursorPosition(segments, prev.selection)

\* C27: the host is notified of every committed mutation: once an operation
\* that changed the segments and its effects are over, the value onChange was
\* called with last is the serialization of the segments.
C27_HostNotifiedOfMutation ==
    (lastOp \in RecordedOps /\ contentOf(segments) # contentOf(prev.segments))
        => onChangeValue = segmentsToText(segments)

\* the scroll/resize-driven jobs that are pending: the timer and the frame
pendingJobs ==
    (IF scrollTimeout # NoJob THEN {scrollTimeout} ELSE {})
        \cup (IF cursorUpdateFrameRef # NoJob THEN {cursorUpdateFrameRef} ELSE {})

\* C28: at most one scroll/resize-driven caret-reposition job is pending at
\* any time: scheduling a new one first cancels the pending one, so a job that
\* was superseded by a newer one never runs.
C28_OnePendingRepositionJob ==
    /\ Cardinality(pendingJobs) <= 1
    /\ lastOp = "frame" => prev.job = prev.newest

\* C29: with zero segments Backspace leaves the state as it is: still zero
\* segments and the caret at (0,0).
C29_BackspaceOnEmptyIsNoOp ==
    (lastOp = "Backspace" /\ prev.segments = <<>>) =>
        /\ segments = <<>>
        /\ selection = SegmentPosition(0, 0)
        /\ selection = prev.selection

\* Backspace in the editor emptied after a key was typed
C29_Witness ==
    /\ lastOp = "Backspace"
    /\ prev.segments = <<>>
    /\ segments = <<>>
    /\ keysTyped = 1

\* C30: a click that lands on a dropdown chip sets the caret to the segment
\* index of that dropdown with offsetInSegment 0.
\* (prev.segmentIndex is the index of the chip that was clicked)
C30_DropdownClickSelectsChip ==
    lastOp = "DropdownClick" =>
        /\ selection = SegmentPosition(prev.segmentIndex, 0)
        /\ Seg(segments, prev.segmentIndex).type = "dropdown"

\* a chip that is not the first segment was clicked
C30_Witness ==
    /\ lastOp = "DropdownClick"
    /\ prev.segmentIndex > 0
    /\ selection.segmentIndex > 0
    /\ Seg(segments, selection.segmentIndex).type = "dropdown"


\* ------------------------------------------------------------------------
\* The real-time monitor (services/realtimeMonitor.ts) on a page
\* ------------------------------------------------------------------------
\* page.listeners holds the input listeners attached to the input element and
\* page.timers those whose debounce timer is pending; page.inits holds the
\* calls of initializeMonitoring that are awaiting, each with the retry
\* interval that made it (NoJob for the call start() makes itself);
\* page.loops holds the retry intervals that are set; page.analyses holds, for
\* each analysis awaiting Promise.race, the seconds since it started;
\* page.events holds the events dispatched on window since the last
\* promptAnalysisStart that found no analysis awaiting, each as [type, after],
\* after being the seconds since its start when an analysis ends.  The calls of
\* initializeMonitoring are numbered from page.nextId; a listener and a retry
\* interval carry the number of the call that attached or preceded them.
\* page.started counts the analyses.  page.added, page.succeeded and
\* page.analysed are kept for the properties: the characters typed since the
\* last triggered analysis (counted up to the threshold), the successful
\* initializations since isActive became true, and the trimmed text of the
\* last triggered analysis.

MaxInits == 2      \* calls of initializeMonitoring made in one run

MaxAnalyses == 2   \* analyses triggered in one run

TimeoutSeconds == 10   \* setTimeout(() => reject(new Error('Analysis timeout')), 10000)

MinLength == 10        \* trimmedText.length < 10

Letters == {"a", "b", "c", "d", "e", "f", "g", "h", "i", "j", "k", "l", "m", "n", "o", "p", "q", "r", "s", "t", "u", "v", "w", "x", "y", "z",
            "A", "B", "C", "D", "E", "F", "G", "H", "I", "J", "K", "L", "M", "N", "O", "P", "Q", "R", "S", "T", "U", "V", "W", "X", "Y", "Z"}

\* what the user can leave in the input element
InputTexts ==
    { <<"f", "i", "x", " ", "m", "y", " ", "c", "o", "d", "e">>,
      <<" ", "f", "i", "x", " ", "m", "y", " ", "c", "o", "d", "e", " ">>,
      <<"f", "i", "x", " ", "m", "y", " ", "a", "p", "p">>,
      <<"f", "i", "x">> }

\* what getRealtimeSettings can resolve to (enabled: true)
StoredSettings ==
    { [frequencyType |-> "characters", characterThreshold |-> 4],
      [frequencyType |-> "time", characterThreshold |-> 4] }

\* /[a-zA-Z]/.test(text)
hasLetters(text) == \E i \in 1..Len(text) : text[i] \in Letters

RECURSIVE commonPrefix(_, _)
commonPrefix(a, b) ==
    IF a = <<>> \/ b = <<>> \/ a[1] # b[1] THEN 0
    ELSE 1 + commonPrefix(Tail(a), Tail(b))

\* the characters the user types to turn the text `from' into the text `to':
\* the end is deleted back to what the two have in common, the rest is typed
typedChars(from, to) == Len(to) - commonPrefix(from, to)

\* shouldTriggerAnalysis(text, settings), trimmedText being text.trim():
\* [trigger, state], state being the monitorState it leaves
shouldTriggerAnalysis(ms, trimmedText) ==
    IF trimmedText = <<>> THEN [trigger |-> FALSE, state |-> ms]
    ELSE IF trimmedText = ms.lastAnalyzedText THEN [trigger |-> FALSE, state |-> ms]
    ELSE IF ms.settings.frequencyType = "characters"
    THEN IF Len(trimmedText) - ms.characterCount >= ms.settings.characterThreshold
         THEN [trigger |-> TRUE,
               state |-> [ms EXCEPT !.characterCount = Len(trimmedText)]]
         ELSE [trigger |-> FALSE, state |-> ms]
    ELSE [trigger |-> TRUE, state |-> ms]

\* the edge cases handleInputChange skips (no text of the model is longer
\* than 5000 characters)
analysable(trimmedText) ==
    /\ trimmedText # <<>>
    /\ Len(trimmedText) >= MinLength
    /\ hasLetters(trimmedText)

\* handleInputChange(text) up to its await: [trigger, state]
handleInputChange(ms, text) ==
    IF ms.settings = NoSettings \/ ~ms.isActive THEN [trigger |-> FALSE, state |-> ms]
    ELSE IF ~analysable(trim(text)) THEN [trigger |-> FALSE, state |-> ms]
    ELSE IF shouldTriggerAnalysis(ms, trim(text)).trigger
    THEN [trigger |-> TRUE,
          state |-> [shouldTriggerAnalysis(ms, trim(text)).state
                        EXCEPT !.lastAnalyzedText = trim(text)]]
    ELSE [trigger |-> FALSE, state |-> ms]

\* cleanupMonitoring: [state, page]
cleanupMonitoring(ms, pg) ==
    [state |-> [ms EXCEPT !.cleanup = NoCleanup, !.settings = NoSettings,
                          !.lastAnalyzedText = <<>>, !.characterCount = 0],
     page |-> [pg EXCEPT !.listeners = @ \ {ms.cleanup}, !.timers = @ \ {ms.cleanup}]]

\* start() up to its await
start(ms, pg) ==
    IF ms.isActive THEN [state |-> ms, page |-> pg]
    ELSE [state |-> [ms EXCEPT !.isActive = TRUE],
          page |-> [pg EXCEPT !.inits = @ \cup {[id |-> pg.nextId, loop |-> NoJob]},
                              !.nextId = @ + 1, !.succeeded = 0]]

stop(ms, pg) == cleanupMonitoring([ms EXCEPT !.isActive = FALSE], pg)

\* initializeMonitoring from "Set up monitoring" on, when every check passed
initializeMonitoring(ms, pg, task) ==
    [state |-> [ms EXCEPT !.settings = pg.settings, !.lastAnalyzedText = <<>>,
                          !.characterCount = Len(pg.text), !.cleanup = task.id],
     page |-> [pg EXCEPT !.listeners = @ \cup {task.id},
                         !.succeeded = @ + 1, !.added = 0]]

\* what follows `await initializeMonitoring()' in start() and in the callback
\* of the retry interval; r is [state, page] as the call left them
afterInitialize(task, success, r) ==
    IF task.loop = NoJob
    THEN IF success THEN r
         ELSE [r EXCEPT !.page.loops = @ \cup {task.id}]
    ELSE IF success THEN [r EXCEPT !.page.loops = @ \ {task.loop}]
         ELSE r

\* the editor of part_003 is not mounted on the page
EditorIdle ==
    /\ segments = <<>>
    /\ selection = SegmentPosition(0, 0)
    /\ highlightedChip = NoChip
    /\ keysTyped = 0
    /\ lastSentValueRef = <<>>
    /\ onChangeValue = NoValue
    /\ isFocused = FALSE
    /\ scrollTimeout = NoJob
    /\ cursorUpdateFrameRef = NoJob

EditorIdleUnchanged ==
    UNCHANGED <<segments, selection, highlightedChip, keysTyped, lastSentValueRef,
                onChangeValue, isFocused, scrollTimeout, cursorUpdateFrameRef>>

MonitorInit ==
    \E text \in InputTexts, settings \in StoredSettings :
        /\ EditorIdle
        /\ lastOp = "init"
        /\ prev = NoPrev
        /\ monitorState = MonitorStateInit
        /\ page = PageInit(text, settings)
        /\ bubble = BubbleStateInit
        /\ storage = StorageInit
        /\ manager = ManagerInit
        /\ host = HostStateInit

\* a step of the monitor that leaves r = [state, page]
MonitorStep(op, r, before) ==
    /\ monitorState' = r.state
    /\ page' = r.page
    /\ lastOp' = op
    /\ prev' = before
    /\ EditorIdleUnchanged
    /\ UNCHANGED <<bubble, storage, manager, host>>

\* realtimeMonitor.start() of initializeApp
Start ==
    /\ page.nextId <= MaxInits
    /\ ~monitorState.isActive
    /\ MonitorStep("start", start(monitorState, page), NoPrev)

Stop ==
    /\ monitorState.isActive
    /\ MonitorStep("stop", stop(monitorState, page), NoPrev)

\* the MutationObserver of the content script: stop() then start()
Restart ==
    /\ page.nextId <= MaxInits
    /\ MonitorStep("restart",
                   start(stop(monitorState, page).state, stop(monitorState, page).page),
                   NoPrev)

\* a call of initializeMonitoring resolves
InitializeSettles ==
    \E task \in page.inits, success \in BOOLEAN :
        /\ MonitorStep("initialize",
               afterInitialize(task, success,
                   IF success
                   THEN initializeMonitoring(monitorState,
                                             [page EXCEPT !.inits = @ \ {task}], task)
                   ELSE [state |-> monitorState,
                         page |-> [page EXCEPT !.inits = @ \ {task}]]),
               NoPrev)

\* the callback of a retry interval
RetryTick ==
    \E loop \in page.loops :
        /\ (monitorState.isActive => page.nextId <= MaxInits)
        /\ MonitorStep("retry",
               [state |-> monitorState,
                page |-> IF ~monitorState.isActive
                         THEN [page EXCEPT !.loops = @ \ {loop}]
                         ELSE [page EXCEPT !.inits = @ \cup {[id |-> page.nextId,
                                                             loop |-> loop]},
                                           !.nextId = @ + 1]],
               NoPrev)

\* "Stop retrying after 30 seconds"
RetryStop ==
    \E loop \in page.loops :
        MonitorStep("retryStop",
                    [state |-> monitorState,
                     page |-> [page EXCEPT !.loops = @ \ {loop}]],
                    NoPrev)

\* handleInput of every attached listener: the user leaves another text in the element
InputEvent ==
    \E text \in InputTexts :
        /\ text # page.text
        /\ MonitorStep("input",
               [state |-> monitorState,
                page |-> [page EXCEPT
                            !.text = text,
                            !.timers = page.listeners,
                            !.added = Min(page.settings.characterThreshold,
                                          @ + typedChars(page.text, text))]],
               NoPrev)

\* the page after the debounced callback r = handleInputChange(...) of listener
debounced(pg, listener, r) ==
    IF r.trigger
    THEN [pg EXCEPT !.timers = @ \ {listener},
                    !.events = Append(IF pg.analyses = <<>> THEN <<>> ELSE @,
                                      [type |-> "promptAnalysisStart", after |-> 0]),
                    !.analyses = Append(@, 0),
                    !.started = @ + 1,
                    !.added = 0,
                    !.analysed = trim(pg.text)]
    ELSE [pg EXCEPT !.timers = @ \ {listener}]

\* the debounce timer of a listener fires: callback(getInputText(element))
DebounceFires ==
    \E listener \in page.timers :
        /\ handleInputChange(monitorState, page.text).trigger
               => page.started < MaxAnalyses
        /\ MonitorStep("debounce",
               [state |-> handleInputChange(monitorState, page.text).state,
                page |-> debounced(page, listener,
                                   handleInputChange(monitorState, page.text))],
               [segments |-> <<>>, selection |-> NoPrev.selection,
                triggered |-> handleInputChange(monitorState, page.text).trigger,
                monitorState |-> monitorState,
                added |-> page.added,
                analysed |-> page.analysed])

\* analyzePromptRealtime resolves before the timeout; suggestion tells
\* whether response.content is a suggestion to show
AnalysisResponds ==
    \E analysis \in 0..(Len(page.analyses) - 1), suggestion \in BOOLEAN :
        MonitorStep("response",
            [state |-> monitorState,
             page |-> [page EXCEPT
                 !.analyses = spliceOut(@, analysis),
                 !.events = Append(@, [type |-> "promptAnalysisEnd",
                                       after |-> Seg(page.analyses, analysis)])
                            \o (IF suggestion
                                THEN <<[type |-> "promptSuggestion", after |-> 0]>>
                                ELSE <<>>)]],
            NoPrev)

\* the timeout of an analysis rejects: the catch block
AnalysisTimesOut ==
    \E analysis \in 0..(Len(page.analyses) - 1) :
        /\ Seg(page.analyses, analysis) = TimeoutSeconds
        /\ MonitorStep("timeout",
               [state |-> monitorState,
                page |-> [page EXCEPT
                    !.analyses = spliceOut(@, analysis),
                    !.events = Append(@, [type |-> "promptAnalysisEnd",
                                          after |-> TimeoutSeconds])]],
               NoPrev)

\* half the time of a timeout passes while an analysis is awaited; a timeout
\* that is due fires first
Tick ==
    /\ page.analyses # <<>>
    /\ \A i \in 1..Len(page.analyses) : page.analyses[i] < TimeoutSeconds
    /\ MonitorStep("tick",
           [state |-> monitorState,
            page |-> [page EXCEPT !.analyses =
                        [i \in 1..Len(@) |-> @[i] + (TimeoutSeconds \div 2)]]],
           NoPrev)

\* the life cycle of the monitor: starting, stopping, initializing and
\* retrying, while the user types
MonitorNext ==
    \/ Start
    \/ Stop
    \/ Restart
    \/ InitializeSettles
    \/ RetryTick
    \/ RetryStop
    \/ InputEvent

SpecMonitor == MonitorInit /\ [][MonitorNext]_vars

\* the analyses of the monitor: what the debounced input events trigger while
\* the content script starts and restarts the monitor
AnalysisNext ==
    \/ Start
    \/ Restart
    \/ InitializeSettles
    \/ InputEvent
    \/ DebounceFires
    \/ AnalysisResponds
    \/ AnalysisTimesOut
    \/ Tick

SpecAnalysis == MonitorInit /\ [][AnalysisNext]_vars


\* ------------------------------------------------------------------------
\* The suggestion bubble (SuggestionBubble)
\* ------------------------------------------------------------------------
\* bubble.suggestion tells whether the state `suggestion' holds a suggestion;
\* bubble.hideTimeoutRef and bubble.loadingTimeoutRef tell whether the ref
\* holds a timer handle.  The handle a ref holds is that of the timer set
\* last, pending or not: bubble.hideTimer and bubble.loadingTimer are the
\* milliseconds until that timer fires, or NoTimer when it was cleared
\* or has fired.  bubble.fadeTimers holds the times until the timers of
\* hideSuggestion fire, which no ref holds.  bubble.sinceShown is the time
\* since showSuggestion ran last, counted up to HideDelay + FadeDelay.

HideDelay == 8000     \* setTimeout(() => { hideSuggestion(); }, 8000)

FadeDelay == 300      \* setTimeout(..., 300) of hideSuggestion

LoadingDelay == 500   \* setTimeout(..., 500) of handleAnalysisStart

\* the times that pass in one step
TickSteps == {FadeDelay \div 3, FadeDelay, LoadingDelay, HideDelay}

\* the cleanup of the effect that depends on [isVisible], run when a render
\* changes isVisible from what before held: b is the bubble the handler left
rendered(before, b) ==
    IF b.isVisible = before.isVisible THEN b
    ELSE [b EXCEPT !.hideTimer = IF b.hideTimeoutRef THEN NoTimer ELSE @,
                   !.loadingTimer = IF b.loadingTimeoutRef THEN NoTimer ELSE @]

showSuggestion(b) ==
    [b EXCEPT !.suggestion = TRUE, !.isVisible = TRUE,
              !.hideTimer = HideDelay, !.hideTimeoutRef = TRUE,
              !.sinceShown = 0]

hideSuggestion(b) ==
    [b EXCEPT !.isVisible = FALSE, !.fadeTimers = @ \cup {FadeDelay}]

\* SpecBubble: the bubble alone on the page
BubbleInit ==
    /\ EditorIdle
    /\ lastOp = "init"
    /\ prev = NoPrev
    /\ monitorState = MonitorStateInit
    /\ page = PageInit(<<>>, NoSettings)
    /\ bubble = BubbleStateInit
    /\ storage = StorageInit
    /\ manager = ManagerInit
    /\ host = HostStateInit

\* a handler or a timer of the bubble left b, and the bubble is rendered
BubbleStep(op, b) ==
    /\ bubble' = rendered(bubble, b)
    /\ lastOp' = op
    /\ prev' = NoPrev
    /\ EditorIdleUnchanged
    /\ UNCHANGED <<monitorState, page, storage, manager, host>>

\* handleSuggestion: a promptSuggestion event with a suggestion
Suggestion == BubbleStep("suggestion", showSuggestion(bubble))

\* handleAnalysisStart
AnalysisStart ==
    BubbleStep("analysisStart",
               [bubble EXCEPT !.loadingTimer = LoadingDelay, !.loadingTimeoutRef = TRUE])

\* handleAnalysisEnd
AnalysisEnd ==
    BubbleStep("analysisEnd",
               [bubble EXCEPT !.loadingTimer = IF @ # NoTimer /\ bubble.loadingTimeoutRef
                                               THEN NoTimer ELSE @,
                              !.loadingTimeoutRef = FALSE,
                              !.isLoading = FALSE])

\* handleKeyDown with Escape or Ctrl+Enter, and handleClickOutside
Dismiss ==
    /\ bubble.isVisible
    /\ BubbleStep("dismiss", hideSuggestion(bubble))

\* the timer of showSuggestion fires
HideTimerFires ==
    /\ bubble.hideTimer = 0
    /\ BubbleStep("hideTimer", hideSuggestion([bubble EXCEPT !.hideTimer = NoTimer]))

\* a timer of hideSuggestion fires
FadeTimerFires ==
    /\ 0 \in bubble.fadeTimers
    /\ BubbleStep("fadeTimer",
                  [bubble EXCEPT !.fadeTimers = @ \ {0},
                                 !.suggestion = FALSE,
                                 !.hideTimer = IF bubble.hideTimeoutRef THEN NoTimer ELSE @,
                                 !.hideTimeoutRef = FALSE])

\* the timer of handleAnalysisStart fires
LoadingTimerFires ==
    /\ bubble.loadingTimer = 0
    /\ BubbleStep("loadingTimer",
                  [bubble EXCEPT !.loadingTimer = NoTimer, !.isLoading = TRUE,
                                 !.isVisible = TRUE])

\* the pending timers of the bubble b
pendingTimers(b) ==
    ({b.hideTimer, b.loadingTimer} \ {NoTimer}) \cup b.fadeTimers

\* time passes, no further than to the next timer
BubbleTick ==
    \E d \in TickSteps :
        /\ \A t \in pendingTimers(bubble) : d <= t
        /\ bubble' = [bubble EXCEPT
              !.hideTimer = IF @ = NoTimer THEN @ ELSE @ - d,
              !.loadingTimer = IF @ = NoTimer THEN @ ELSE @ - d,
              !.fadeTimers = {t - d : t \in @},
              !.sinceShown = Min(HideDelay + FadeDelay, @ + d)]
        /\ lastOp' = "tick"
        /\ prev' = NoPrev
        /\ EditorIdleUnchanged
        /\ UNCHANGED <<monitorState, page, storage, manager, host>>

BubbleNext ==
    \/ Suggestion
    \/ AnalysisStart
    \/ AnalysisEnd
    \/ Dismiss
    \/ HideTimerFires
    \/ FadeTimerFires
    \/ LoadingTimerFires
    \/ BubbleTick

SpecBubble == BubbleInit /\ [][BubbleNext]_vars

\* ------------------------------------------------------------------------
\* The stored contexts (saveContext)
\* ------------------------------------------------------------------------
\* storage.contexts is the list under the key `contexts' of
\* chrome.storage.local, a context being its number; storage.calls holds the
\* saveContext calls in flight: one awaits get() at "get", and at "set" it
\* awaits set() with the list limitedContexts it computed.  storage.saved
\* lists the contexts whose saveContext call has completed, oldest first.

MaxSaves == 6       \* saveContext is called at most this often

MaxContexts == 5    \* updatedContexts.slice(-5)

\* array.slice(-n)
lastOf(array, n) ==
    SubSeq(array, Max(1, Len(array) - n + 1), Len(array))

Range(array) == {array[i] : i \in 1..Len(array)}

\* the component variables the stored contexts and the manager leave alone
PageUnchanged ==
    /\ prev' = NoPrev
    /\ EditorIdleUnchanged
    /\ UNCHANGED <<monitorState, page, bubble, host>>

StorageInitial ==
    /\ EditorIdle
    /\ lastOp = "init"
    /\ prev = NoPrev
    /\ ServicesIdle

\* saveContext is called and awaits chrome.storage.local.get
SaveContext ==
    /\ storage.nextId <= MaxSaves
    /\ storage' = [storage EXCEPT
          !.calls = @ \cup {[id |-> storage.nextId, pc |-> "get",
                             limitedContexts |-> <<>>]},
          !.nextId = @ + 1]
    /\ lastOp' = "saveContext"
    /\ PageUnchanged
    /\ UNCHANGED manager

\* get() resolves with the list stored now; the call awaits set()
GetResolves ==
    \E call \in storage.calls :
        /\ call.pc = "get"
        /\ storage' = [storage EXCEPT
              !.calls = (@ \ {call}) \cup
                  {[call EXCEPT !.pc = "set",
                                !.limitedContexts =
                                    lastOf(Append(storage.contexts, call.id),
                                           MaxContexts)]}]
        /\ lastOp' = "get"
        /\ PageUnchanged
        /\ UNCHANGED manager

\* set() stores the list of the call and resolves; saveContext returns
SetResolves ==
    \E call \in storage.calls :
        /\ call.pc = "set"
        /\ storage' = [storage EXCEPT
              !.calls = @ \ {call},
              !.contexts = call.limitedContexts,
              !.saved = Append(@, call.id)]
        /\ lastOp' = "set"
        /\ PageUnchanged
        /\ UNCHANGED manager

StorageNext ==
    \/ SaveContext
    \/ GetResolves
    \/ SetResolves

SpecStorage == StorageInitial /\ [][StorageNext]_vars

\* ------------------------------------------------------------------------
\* The refine-button manager (UniversalRefineButtonManager)
\* ------------------------------------------------------------------------
\* Times are milliseconds.  manager.hideTimer is the time until the timer whose
\* handle this.hideTimer holds fires, or NoTimer when the field is undefined
\* or its timer has fired; manager.strayTimers holds the timers of
\* handleInputBlur whose handle was overwritten; manager.showTimers the timers
\* of handleInputFocus.  manager.visible is buttonPosition.visible,
\* manager.length the length of the text of each input, counted up to
\* MinContent + 1, and manager.focused the input that has the focus.

ShowButtonDelay == 100    \* setTimeout(() => this.showButton(), 100)

HideButtonDelay == 150    \* the delay of handleInputBlur

TypingDelay == 600        \* the pause after typing

MinContent == 3           \* text.length > 3

\* calculateButtonPosition returns a visible position for every element
showButton(m) ==
    IF m.activeInput = NoInput THEN m
    ELSE [m EXCEPT !.visible = TRUE, !.hideTimer = NoTimer]

hideButton(m) == [m EXCEPT !.visible = FALSE]

handleInputFocus(m, element) ==
    [m EXCEPT !.activeInput = element,
              !.showTimers = IF m.length[element] > MinContent
                             THEN @ \cup {ShowButtonDelay} ELSE @]

handleInputBlur(m) ==
    [m EXCEPT !.hideTimer = HideButtonDelay,
              !.strayTimers = IF m.hideTimer # NoTimer THEN @ \cup {m.hideTimer} ELSE @]

ManagerInitial ==
    /\ EditorIdle
    /\ lastOp = "init"
    /\ prev = NoPrev
    /\ ServicesIdle

ManagerStep(op, m) ==
    /\ manager' = m
    /\ lastOp' = op
    /\ PageUnchanged
    /\ UNCHANGED storage

\* focusListener: an input that passes isRelevantInput gets the focus
FocusIn ==
    \E element \in Inputs :
        /\ manager.focused = NoInput
        /\ ManagerStep("focusin",
                       [handleInputFocus(manager, element) EXCEPT !.focused = element])

\* blurListener: the focused input loses the focus
FocusOut ==
    /\ manager.focused # NoInput
    /\ ManagerStep("focusout",
                   [(IF manager.activeInput = manager.focused
                     THEN handleInputBlur(manager) ELSE manager)
                    EXCEPT !.focused = NoInput])

\* keyListener with a typing key, which the focused input takes: handleTyping
TypingKey ==
    \E d \in {-1, 1} :
        /\ manager.focused # NoInput
        /\ manager.length[manager.focused] + d >= 0
        /\ ManagerStep("typing",
              [manager EXCEPT
                  !.length[manager.focused] = Min(MinContent + 1, @ + d),
                  !.typingTimer = IF manager.activeInput # NoInput
                                  THEN TypingDelay ELSE @])

\* keyListener with Escape
EscapeKey ==
    /\ manager.visible
    /\ ManagerStep("escape", hideButton(manager))

\* a timer of handleInputBlur fires
HideButtonTimerFires ==
    /\ manager.hideTimer = 0 \/ 0 \in manager.strayTimers
    /\ ManagerStep("hideTimer",
          [hideButton(manager) EXCEPT
              !.activeInput = NoInput,
              !.hideTimer = IF @ = 0 THEN NoTimer ELSE @,
              !.strayTimers = IF manager.hideTimer = 0 THEN @ ELSE @ \ {0}])

\* a timer of handleInputFocus fires
ShowButtonTimerFires ==
    /\ 0 \in manager.showTimers
    /\ ManagerStep("showTimer",
                   showButton([manager EXCEPT !.showTimers = @ \ {0}]))

\* the timer of handleTyping fires
TypingTimerFires ==
    /\ manager.typingTimer = 0
    /\ ManagerStep("typingTimer",
          IF /\ manager.activeInput # NoInput
             /\ manager.length[manager.activeInput] > MinContent
          THEN showButton([manager EXCEPT !.typingTimer = NoTimer])
          ELSE [manager EXCEPT !.typingTimer = NoTimer])

\* the pending timers of the manager m
managerTimers(m) ==
    ({m.hideTimer, m.typingTimer} \ {NoTimer}) \cup m.strayTimers \cup m.showTimers

\* time passes, no further than to the next timer
ManagerTick ==
    \E d \in {ShowButtonDelay \div 2, TypingDelay} :
        /\ \A t \in managerTimers(manager) : d <= t
        /\ ManagerStep("tick",
              [manager EXCEPT
                  !.hideTimer = IF @ = NoTimer THEN @ ELSE @ - d,
                  !.typingTimer = IF @ = NoTimer THEN @ ELSE @ - d,
                  !.strayTimers = {t - d : t \in @},
                  !.showTimers = {t - d : t \in @}])

ManagerNext ==
    \/ FocusIn
    \/ FocusOut
    \/ TypingKey
    \/ EscapeKey
    \/ HideButtonTimerFires
    \/ ShowButtonTimerFires
    \/ TypingTimerFires
    \/ ManagerTick

SpecManager == ManagerInitial /\ [][ManagerNext]_vars

\* ------------------------------------------------------------------------
\* The editor in a host that feeds onChange back (EditorTest)
\* ------------------------------------------------------------------------
\* host.value is editorValue, the value prop of the next render; host.rendered
\* is the value prop the value effect ran for last.  host.cause tells what
\* happened last, the mount, a push of the host or an edit of the user, and
\* host.emissions and host.parses count the onChange calls and the re-parses
\* of the value effect since then, up to 2.

\* handleEditorChange a host would have if it cut the last character
handleEditorChangeShortened(newValue) ==
    SubSeq(newValue, 1, Len(newValue) - 1)

\* handleEditorChange: the editorValue the host sets for the payload newValue
handleEditorChange(newValue) == newValue

\* the onChange effect called onChange in this step
emitted ==
    /\ segments' # segments
    /\ lastSentValueRef' # lastSentValueRef

\* the editor mounted by a host that passes value and feeds onChange back
HostInit ==
    \E value \in HostValues :
        /\ segments = mountParse(value, parseTextToSegments(value, {})).segments
        /\ selection = SegmentPosition(0, 0)
        /\ highlightedChip = NoChip
        /\ keysTyped = 0
        /\ lastOp = "init"
        /\ prev = NoPrev
        /\ lastSentValueRef = segmentsToText(segments)
        /\ onChangeValue = IF lastSentValueRef # value THEN lastSentValueRef ELSE NoValue
        /\ isFocused = FALSE
        /\ scrollTimeout = NoJob
        /\ cursorUpdateFrameRef = NoJob
        /\ PageIdle
        /\ host = [value |-> IF lastSentValueRef # value
                             THEN handleEditorChange(lastSentValueRef) ELSE value,
                   rendered |-> value, cause |-> "mount",
                   emissions |-> IF lastSentValueRef # value THEN 1 ELSE 0,
                   parses |-> 0]

\* a handler or an effect of the editor left st; the onChange effect runs and
\* the host takes the payload
HostStep(op, st) ==
    /\ segments' = st.segments
    /\ selection' = st.selection
    /\ highlightedChip' = st.highlightedChip
    /\ lastOp' = op
    /\ prev' = NoPrev
    /\ onChangeEffect
    /\ UNCHANGED <<isFocused, scrollTimeout, cursorUpdateFrameRef, monitorState,
                   page, bubble, storage, manager>>

\* the host after an edit of the user; React has rendered the value of the
\* host before it handles the next event of the user
afterEdit ==
    /\ host.rendered = host.value
    /\ host' = [host EXCEPT
           !.value = IF emitted THEN handleEditorChange(onChangeValue') ELSE @,
           !.cause = "edit",
           !.emissions = IF emitted THEN 1 ELSE 0,
           !.parses = 0]

\* the user types a key, or commits a custom option
HostEditAdds ==
    /\ keysTyped < MaxTyped
    /\ keysTyped' = keysTyped + 1
    /\ \/ \E key \in TypedKeys :
              HostStep("InsertText", handleInsertTextSafe(editorState, <<key>>))
       \/ HostStep("Enter", handleEnter(editorState))
       \/ \E i \in 1..Len(segments) : \E customValue \in CustomValues :
              /\ segments[i].type = "dropdown"
              /\ HostStep("AddCustomOption",
                    handleAddCustomOption(editorState, segments[i].id, customValue))
    /\ afterEdit

\* the user deletes, or selects an option
HostEditRemoves ==
    /\ UNCHANGED keysTyped
    /\ \/ HostStep("Backspace", handleBackspaceSafe(editorState))
       \/ HostStep("Delete", handleDelete(editorState))
       \/ \E i \in 1..Len(segments) :
              /\ segments[i].type = "dropdown"
              /\ \E k \in 1..Len(segments[i].options) :
                     HostStep("ChangeDropdown",
                        handleChangeDropdown(editorState, segments[i].id,
                                             segments[i].options[k]))
    /\ afterEdit

\* the host sets editorValue itself
HostPush ==
    \E value \in ExternalValues :
        /\ value # host.value
        /\ host' = [host EXCEPT !.value = value, !.cause = "push",
                                !.emissions = 0, !.parses = 0]
        /\ lastOp' = "push"
        /\ prev' = NoPrev
        /\ UNCHANGED <<segments, selection, highlightedChip, keysTyped,
                       lastSentValueRef, onChangeValue, isFocused, scrollTimeout,
                       cursorUpdateFrameRef, monitorState, page, bubble, storage,
                       manager>>

\* the editor renders with the value of the host: the value effect, then the
\* onChange effect
HostRender ==
    /\ host.rendered # host.value
    /\ UNCHANGED keysTyped
    /\ HostStep("render",
                IF host.value # segmentsToText(segments)
                THEN externalValueEffect(editorState, host.value)
                ELSE editorState)
    /\ host' = [host EXCEPT
          !.value = IF emitted THEN handleEditorChange(onChangeValue') ELSE @,
          !.rendered = host.value,
          !.emissions = IF emitted THEN Min(2, @ + 1) ELSE @,
          !.parses = IF host.value # segmentsToText(segments)
                     THEN Min(2, @ + 1) ELSE @]

HostNext ==
    \/ HostEditAdds
    \/ HostEditRemoves
    \/ HostPush
    \/ HostRender

SpecHost == HostInit /\ [][HostNext]_vars

\* ------------------------------------------------------------------------
\* Properties of the real-time monitor
\* ------------------------------------------------------------------------
\* the indices of page.events that hold an event of the type
eventsOf(type) == {i \in 1..Len(page.events) : page.events[i].type = type}

\* the promptAnalysisEnd events between the promptAnalysisStart at i and the
\* promptAnalysisStart that follows it
endsAfter(i) ==
    {j \in eventsOf("promptAnalysisEnd") :
        /\ j > i
        /\ \A k \in eventsOf("promptAnalysisStart") : k > i => j < k}

C33_NoReanalysisOfSameText ==
    (lastOp = "debounce" /\ prev.triggered) => trim(page.text) # prev.analysed

\* C34: in the 'characters' mode, when the user has typed at least
\* characterThreshold characters since the last triggered analysis (or since
\* monitoring began), the debounced input event on analysable text triggers an
\* analysis.
C34_ThresholdTriggers ==
    (/\ lastOp = "debounce"
     /\ prev.monitorState.isActive
     /\ prev.monitorState.settings.frequencyType = "characters"
     /\ prev.added >= prev.monitorState.settings.characterThreshold
     /\ analysable(trim(page.text)))
        => prev.triggered


\* C32: once the monitor is stopped and no call of initializeMonitoring is
\* awaiting, no input listener the monitor attached, and no debounce timer of
\* such a listener, remains on the page.
C32_StopRemovesListeners ==
    (~monitorState.isActive /\ page.inits = {})
        => (page.listeners = {} /\ page.timers = {})

\* C38: at most one retry interval of the monitor is set at any time, and
\* initializeMonitoring succeeds at most once while the monitor stays active.
C38_OneRetryLoopOneSuccess ==
    /\ Cardinality(page.loops) <= 1
    /\ page.succeeded <= 1


\* C35: a suggestion bubble that has been shown is hidden 8 seconds after the
\* most recent suggestion was shown, unless it was dismissed earlier: the
\* bubble never shows a suggestion for more than 8 seconds after showSuggestion
\* ran last.
C35_BubbleHiddenAfterHideDelay ==
    (bubble.suggestion /\ bubble.isVisible) => bubble.sinceShown <= HideDelay


\* C39: once every saveContext call has completed, the stored list holds at
\* most 5 contexts and holds every one of the 5 contexts saved most recently.
C39_StoredContextsAreTheLatest ==
    storage.calls = {} =>
        /\ Len(storage.contexts) <= MaxContexts
        /\ Range(lastOf(storage.saved, MaxContexts)) \subseteq Range(storage.contexts)

\* C40: while a relevant input has the focus, activeInput of the refine-button
\* manager refers to it: no hide timer left by an earlier blur clears it.
C40_ActiveInputIsFocusedInput ==
    manager.focused # NoInput => manager.activeInput = manager.focused


\* handleArrowLeft reads prevSegment.type of segments[segmentIndex - 1]
\* without looking whether the segment exists
arrowLeftReadsMissing(st) ==
    /\ st.selection.offsetInSegment = 0
    /\ st.selection.segmentIndex > 0
    /\ ~HasSeg(st.segments, st.selection.segmentIndex - 1)

\* handleBackspaceSafe reads, after it removed a segment, the type of the
\* segment before the removed one (an emptied text segment, the dropdown at
\* the caret, the dropdown before the caret)
backspaceReadsMissing(st) ==
    LET segs == st.segments
        validPosition == validateCursorPosition(segs, st.selection)
        idx == validPosition.segmentIndex
        off == validPosition.offsetInSegment
    IN  \/ /\ off > 0 /\ HasSeg(segs, idx) /\ Seg(segs, idx).type = "text"
           /\ Len(Seg(segs, idx).value) = 1
           /\ idx > 0
           /\ ~HasSeg(spliceOut(segs, idx), idx - 1)
        \/ /\ off = 0 /\ HasSeg(segs, idx) /\ Seg(segs, idx).type = "dropdown"
           /\ idx > 0
           /\ ~HasSeg(spliceOut(segs, idx), idx - 1)
        \/ /\ off = 0 /\ HasSeg(segs, idx) /\ Seg(segs, idx).type = "text"
           /\ HasSeg(segs, idx - 1) /\ Seg(segs, idx - 1).type = "dropdown"
           /\ idx - 1 > 0
           /\ ~HasSeg(spliceOut(segs, idx - 1), idx - 2)

\* C37: no key operation reads a segment that does not exist: in every
\* reachable state ArrowLeft and Backspace, the two handlers that read a
\* segment without a guard, find the segment they read.
C37_KeysReadExistingSegments ==
    /\ ~arrowLeftReadsMissing(editorState)
    /\ ~backspaceReadsMissing(editorState)


\* Backspace removed a segment and read the one before it, and left the caret
\* at the beginning of a later segment, where ArrowLeft reads the segment
\* before the caret
C37_Witness ==
    /\ lastOp = "Backspace"
    /\ Len(segments) < Len(prev.segments)
    /\ selection.segmentIndex > 0
    /\ selection.offsetInSegment = 0
    /\ HasSeg(segments, selection.segmentIndex - 1)


\* C36: with a host that feeds every onChange payload back as the value, a
\* push of the host or an edit of the user is followed by at most one onChange
\* call and by no re-parse besides the one of the pushed value.
C36_ValueExchangeQuiesces ==
    /\ host.emissions <= 1
    /\ host.parses <= (IF host.cause = "push" THEN 1 ELSE 0)

\* a pushed value was parsed, its serialisation was sent to the host, and the
\* editor rendered the value that came back
C36_Witness ==
    /\ host.cause = "push"
    /\ host.parses = 1
    /\ host.emissions = 1
    /\ host.rendered = host.value

====
